---- MODULE Spec2Model ----
(***************************************************************************)
(* rtt-shell: the J-Link RTT relay (src/src/jlink_rtt.cpp) and the         *)
(* terminal display/record sink (src/src/terminal_display_record.cpp).     *)
(*                                                                         *)
(* Five specifications share the module:                                   *)
(*   SpecStart    jlink_rtt_start() against a remote that answers freely   *)
(*   SpecRelay    rtt_thread(), timeout_thread(), jlink_rtt_transmit() and *)
(*                jlink_rtt_stop() interleaved within one clock tick       *)
(*   SpecWatchdog the same threads with the clock running                  *)
(*   SpecTerm     ehshell_escape_char_parse() and                          *)
(*                terminal_display_record_process_data() fed in batches    *)
(*   SpecCsi      the same two on CSI sequences, up to the buffer's limit  *)
(***************************************************************************)
EXTENDS Integers, Sequences, FiniteSets, TLC

VARIABLES
    \* ---- jlink_rtt_start() ----
    spc,                    \* position of the caller inside jlink_rtt_start
    arg_tx, arg_rx,         \* arguments tx_channel, rx_channel
    arg_addr, arg_range,    \* arguments addr, range (0 or non-zero)
    loop_i,                 \* the for-loop counter i of the discovery loops
    s_rtt_up_buffer_num,
    s_rtt_down_buffer_num,
    s_rtt_rx_channel,
    s_rtt_tx_channel,
    startRet,               \* return value of jlink_rtt_start, "none" before
    remoteLog,              \* EXEC / START / STOP commands issued, in order
    upQueries, downQueries, \* RTT_CMD_GET_NUM_BUF calls per direction
    s_rtt_thread,           \* TRUE when the worker thread object exists
    \* ---- relay worker, watchdog, transmit, stop ----
    s_rtt_rx_queue,         \* the transmit queue: a sequence of chunks
    data,                   \* rtt_thread's local buffer (left-over + merged chunks)
    read_state,             \* rtt_thread's local read_state
    s_req_stop,
    wpc,                    \* position of rtt_thread
    tpc,                    \* position of timeout_thread
    mpc,                    \* position of the caller (main thread)
    s_ctrl_c_pending,
    s_ctrl_c_timeout_active,
    s_ctrl_c_sent_time,     \* 0 is the default time_point{}
    s_last_data_time,       \* 0 is the default time_point{}
    clock,                  \* steady_clock, in ticks of TickMs
    t_now,                  \* timeout_thread's local now (0 outside lines 75-79)
    s_err_cb,               \* TRUE when an error callback is registered
    cv_notified,            \* a notify_one reached the waiting worker
    s_mtx,                  \* holder of s_mtx: "free", "worker" or "main"
    txRet,                  \* return value of the last jlink_rtt_transmit
    nTransmit,              \* calls of jlink_rtt_transmit so far
    nFault,                 \* negative remote read/write results so far
    h_accepted,             \* history: bytes of all accepted chunks, in call order
    h_consumed,             \* history: bytes consumed by successful remote writes
    h_ioErrCalls,           \* history: error callbacks for remote I/O faults
    h_gen,                  \* history: isolated interrupts detected so far
    h_sentGen,              \* history: the interrupt s_ctrl_c_sent_time belongs to
    h_live,                 \* history: armed interrupt, no data read, not fired
    h_answered,             \* history: interrupts answered within the timeout
    h_fired,                \* history: timeout callbacks per interrupt
    t_gen,                  \* history: the interrupt whose sent_time the watchdog loaded
    \* ---- escape classifier, line editor and record sink ----
    s_escape_char_match_state,
    s_escape_char_parse_buf,    \* char[64]; slot 0 is the count
    s_escape_char_parse_buf_str,
    s_linebuf,
    s_linebuf_insert_pos,
    s_is_new_line,
    s_linebuf_current_time_str, \* 0 is "", k the k-th time stamp taken
    remoteOut,              \* bytes the target has sent, not yet read
    nKeys,                  \* keys the target has sent so far
    h_fed,                  \* history: every byte processed, in order
    h_trace,                \* history: one entry per byte processed
    h_echo,                 \* history: everything written to std::cout
    h_log,                  \* history: the records written to the log file
    h_tsCount,              \* history: time stamps taken so far
    h_quitCalls,            \* history: per call of the quit-signal callback,
                            \* the number of bytes processed before it
    h_split,                \* history: a batch has ended inside a sequence
    \* ---- record sink thread, terminal_display_record_write/_stop ----
    \* (the statics s_rtt_rx_queue, s_req_stop, s_thread and the local data of
    \* terminal_display_record.cpp carry the prefix tdr_: jlink_rtt.cpp has
    \* statics of the same names)
    tdr_rtt_rx_queue,       \* the receive queue: a sequence of chunks
    tdr_data,               \* terminal_display_record_thread's local data
    tdr_req_stop,
    tdr_thread,             \* TRUE when the sink thread object exists
    tdr_cv_notified,        \* a notify_one reached the waiting sink thread
    kpc,                    \* position of terminal_display_record_thread
    xpc,                    \* position of the caller in terminal_display_record_stop
    log_open,               \* s_log_file.is_open()
    s_rx_cb,                \* TRUE when terminal_display_record_write is the
                            \* registered receive callback
    nRecv,                  \* calls of the receive callback so far
    h_written,              \* history: bytes of all chunks written, in call order
    h_atStop                \* history: h_written when the sink thread saw the stop

startVars == <<spc, arg_tx, arg_rx, arg_addr, arg_range, loop_i,
               s_rtt_up_buffer_num, s_rtt_down_buffer_num, s_rtt_rx_channel,
               s_rtt_tx_channel, startRet, remoteLog, upQueries, downQueries,
               s_rtt_thread>>

startLocal == <<spc, arg_tx, arg_rx, arg_addr, arg_range, loop_i,
                s_rtt_up_buffer_num, s_rtt_down_buffer_num, s_rtt_rx_channel,
                startRet, upQueries, downQueries>>

watchdogState == <<s_ctrl_c_pending, s_ctrl_c_timeout_active,
                   s_ctrl_c_sent_time>>

watchdogLocal == <<tpc, t_now, t_gen>>

watchdogHist == <<h_gen, h_sentGen, h_live, h_answered, h_fired>>

txHist == <<txRet, nTransmit, h_accepted, h_consumed>>

relayVars == <<s_rtt_rx_queue, data, read_state, s_req_stop, wpc, tpc, mpc,
               s_ctrl_c_pending, s_ctrl_c_timeout_active, s_ctrl_c_sent_time,
               s_last_data_time, clock, t_now, s_err_cb, cv_notified, s_mtx,
               txRet, nTransmit, nFault, h_accepted, h_consumed, h_ioErrCalls,
               h_gen, h_sentGen, h_live, h_answered, h_fired, t_gen>>

editorVars == <<s_escape_char_match_state, s_escape_char_parse_buf,
                s_escape_char_parse_buf_str, s_linebuf, s_linebuf_insert_pos,
                s_is_new_line, s_linebuf_current_time_str, remoteOut, nKeys,
                h_fed, h_trace, h_echo, h_log, h_tsCount, h_quitCalls,
                h_split>>

sinkVars == <<tdr_rtt_rx_queue, tdr_data, tdr_req_stop, tdr_thread,
              tdr_cv_notified, kpc, xpc, log_open, s_rx_cb, nRecv, h_written,
              h_atStop>>

termVars == <<editorVars, sinkVars>>

vars == <<startVars, relayVars, termVars>>

(***************************************************************************)
(* Program constants (src/src/jlink_rtt.cpp)                               *)
(***************************************************************************)
RTT_FIND_BUFFER_MAX_RETRY_COUNT == 100
RTT_FIND_BUFFER_DOWN_MAX_RETRY_COUNT == 10
CTRL_C_TIMEOUT_MS == 200
CTRL_C_ISOLATION_MS == 50
CTRL_C_CHAR == 3

(***************************************************************************)
(* Bounds of the model                                                     *)
(***************************************************************************)
\* largest channel number a caller asks for
MaxChannel == 2
\* largest buffer count the remote reports
MaxBufferNum == 1
\* longest chunk handed to jlink_rtt_transmit
MaxChunkLen == 2
\* calls of jlink_rtt_transmit in one session
MaxTransmits == 2
\* negative remote read/write results in one session
MaxFaults == 1
\* last tick of the clock
MaxClock == 3
\* keys the target sends in one session
MaxKeys == 3
\* keys the target sends in the session of one overwritten line
MaxLineKeys == 4
\* bytes of any value sent after a prefix in one session
MaxProbes == 1
\* chunks the relay hands to the receive callback in one session
MaxReceives == 2

ChannelArgs == -1 .. MaxChannel
\* what JLINK_RTTERMINAL_Control(RTT_CMD_GET_NUM_BUF) may answer
BufferNumAnswers == -1 .. MaxBufferNum
\* what JLINK_ExecCommand / RTT_CMD_START may answer (negative is failure)
StatusAnswers == {-1, 0}

\* one tick of the model's clock, in milliseconds
TickMs == CTRL_C_TIMEOUT_MS \div 2
\* duration_cast<milliseconds>(a - b).count()
ElapsedMs(a, b) == (a - b) * TickMs

\* the text of length n passed by call number k: every byte of a session is
\* different, so that a lost, repeated or misplaced byte shows
TxText(k, n) == [j \in 1 .. n |-> 100 + 10 * k + j]
\* the chunks call number k may pass to jlink_rtt_transmit: a text of any
\* length up to MaxChunkLen, or a lone Ctrl+C
TxChunks(k) == {TxText(k, n) : n \in 0 .. MaxChunkLen} \cup {<<CTRL_C_CHAR>>}
\* the chunks of a single key: Ctrl+C or a letter
KeyChunks == {<<CTRL_C_CHAR>>, <<97>>}

(***************************************************************************)
(* Static initialisers of jlink_rtt.cpp                                    *)
(***************************************************************************)
StaticStart ==
    /\ spc = "entry"
    /\ loop_i = 0
    /\ s_rtt_up_buffer_num = 0
    /\ s_rtt_down_buffer_num = 0
    /\ s_rtt_rx_channel = 0
    /\ s_rtt_tx_channel = -1
    /\ startRet = "none"
    /\ remoteLog = <<>>
    /\ upQueries = 0
    /\ downQueries = 0
    /\ s_rtt_thread = FALSE

StaticRelay ==
    /\ s_rtt_rx_queue = <<>>
    /\ data = <<>>
    /\ read_state = "TRY_READ"
    /\ s_req_stop = FALSE
    /\ wpc = "none"
    /\ tpc = "none"
    /\ mpc = "run"
    /\ s_ctrl_c_pending = FALSE
    /\ s_ctrl_c_timeout_active = FALSE
    /\ s_ctrl_c_sent_time = 0
    /\ s_last_data_time = 0
    /\ clock = 1
    /\ t_now = 0
    /\ s_err_cb = FALSE
    /\ cv_notified = FALSE
    /\ s_mtx = "free"
    /\ txRet = 0
    /\ nTransmit = 0
    /\ nFault = 0
    /\ h_accepted = <<>>
    /\ h_consumed = <<>>
    /\ h_ioErrCalls = 0
    /\ h_gen = 0
    /\ h_sentGen = 0
    /\ h_live = 0
    /\ h_answered = {}
    /\ h_fired = <<>>
    /\ t_gen = 0

(***************************************************************************)
(* Constants of terminal_display_record.cpp                                *)
(***************************************************************************)
ESCAPE_CHAR_NUL == 0
ESCAPE_CHAR_CTRL_C_SIGINT == 3
ESCAPE_CHAR_CTRL_BACKSPACE_0 == 8
ESCAPE_CHAR_CTRL_TAB == 9
ESCAPE_CHAR_CTRL_J_LF == 10
ESCAPE_CHAR_CTRL_M_CR == 13
ESCAPE_CHAR_CTRL_U_DEL_LINE == 14
ESCAPE_CHAR_CTRL_BACKSPACE_1 == 127
ESCAPE_CHAR_CTRL_UTF8_START == 128
ESCAPE_CHAR_CTRL_NOSTD_START == 255
ESCAPE_CHAR_CTRL_RESET == 256
ESCAPE_CHAR_CTRL_HOME == 257
ESCAPE_CHAR_CTRL_END == 258
ESCAPE_CHAR_CTRL_LEFT == 259
ESCAPE_CHAR_CTRL_RIGHT == 260
ESCAPE_CHAR_CTRL_UP == 261
ESCAPE_CHAR_CTRL_DOWN == 262
ESCAPE_CHAR_CTRL_DELETE == 263
ESCAPE_CHAR_CTRL_OTHER == 264

TERMINAL_ESCAPE_MATCH_NONE == 0
TERMINAL_ESCAPE_MATCH_ESC == 1
TERMINAL_ESCAPE_MATCH_ESC_OSC == 2
TERMINAL_ESCAPE_MATCH_ESC_DCS == 3
TERMINAL_ESCAPE_MATCH_ESC_PM == 4
TERMINAL_ESCAPE_MATCH_ESC_APC == 5
TERMINAL_ESCAPE_MATCH_ESC_SS3 == 6
TERMINAL_ESCAPE_MATCH_ESC_CSI == 7
TERMINAL_ESCAPE_MATCH_ESC_STRING_WAIT_ST == 8

TERMINAL_ESCAPE_CHAR_PARSE_BUF_SIZE == 64

\* character literals of the source
CH_ESC == 27
CH_BEL == 7
CH_LBRACKET == 91
CH_RBRACKET == 93
CH_BACKSLASH == 92
CH_CARET == 94
CH_UNDERSCORE == 95
CH_TILDE == 126
CH_SEMICOLON == 59
CH_QUESTION == 63
CH_GREATER == 62
CH_LESS == 60
CH_SPACE == 32
CH_BS == 8
CH_CR == 13
CH_LF == 10
CH_TAB == 9
CH_0 == 48
CH_1 == 49
CH_3 == 51
CH_4 == 52
CH_9 == 57
CH_A == 65
CH_B == 66
CH_C == 67
CH_D == 68
CH_F == 70
CH_H == 72
CH_O == 79
CH_P == 80

(***************************************************************************)
(* Static initialisers of terminal_display_record.cpp                      *)
(***************************************************************************)
StaticTerm ==
    /\ s_escape_char_match_state = TERMINAL_ESCAPE_MATCH_NONE
    /\ s_escape_char_parse_buf =
          [i \in 0 .. TERMINAL_ESCAPE_CHAR_PARSE_BUF_SIZE - 1 |-> 0]
    /\ s_escape_char_parse_buf_str = <<>>
    /\ s_linebuf = <<>>
    /\ s_linebuf_insert_pos = 0
    /\ s_is_new_line = TRUE
    /\ s_linebuf_current_time_str = 0
    /\ remoteOut = <<>>
    /\ nKeys = 0
    /\ h_fed = <<>>
    /\ h_trace = <<>>
    /\ h_echo = <<>>
    /\ h_log = <<>>
    /\ h_tsCount = 0
    /\ h_quitCalls = <<>>
    /\ h_split = FALSE

\* the record sink before terminal_display_record_start()
StaticSink ==
    /\ tdr_rtt_rx_queue = <<>>
    /\ tdr_data = <<>>
    /\ tdr_req_stop = FALSE
    /\ tdr_thread = FALSE
    /\ tdr_cv_notified = FALSE
    /\ kpc = "none"
    /\ xpc = "run"
    /\ log_open = FALSE
    /\ s_rx_cb = FALSE
    /\ nRecv = 0
    /\ h_written = <<>>
    /\ h_atStop = <<>>

(***************************************************************************)
(* jlink_rtt_start                                                         *)
(***************************************************************************)
InitStart ==
    /\ StaticStart
    /\ StaticRelay
    /\ StaticTerm
    /\ StaticSink
    /\ arg_tx \in ChannelArgs
    /\ arg_rx \in ChannelArgs
    /\ arg_addr \in {0, 1}
    /\ arg_range \in {0, 1}

\* addr && range, or addr alone, selects a search command
set_search_addr == arg_addr # 0

\* a faulty variant of StartFail: the error return forgets RTT_CMD_STOP
StartFail_NoStop(stop) ==
    /\ spc' = "returned"
    /\ startRet' = -1
    /\ UNCHANGED remoteLog

\* return -1 from jlink_rtt_start; stop tells whether RTT_CMD_STOP precedes it
StartFail(stop) ==
    /\ spc' = "returned"
    /\ startRet' = -1
    /\ remoteLog' = IF stop THEN Append(remoteLog, "STOP") ELSE remoteLog

\* what no step of jlink_rtt_start touches
StartFrame ==
    UNCHANGED <<arg_tx, arg_rx, arg_addr, arg_range, data, read_state, wpc,
                tpc, mpc, clock, t_now, s_err_cb, cv_notified, s_mtx, txRet,
                nTransmit, nFault, h_accepted, h_consumed, h_ioErrCalls,
                h_gen, h_sentGen, h_live, h_answered, h_fired, t_gen,
                termVars>>

\* lines 187-207: reset the counts and the Ctrl+C state, validate rx_channel
Start_Entry ==
    /\ spc = "entry"
    /\ s_rtt_up_buffer_num' = -1
    /\ s_rtt_down_buffer_num' = -1
    /\ s_ctrl_c_pending' = FALSE
    /\ s_ctrl_c_timeout_active' = FALSE
    /\ s_ctrl_c_sent_time' = 0
    /\ s_last_data_time' = 0
    /\ IF arg_rx < 0
         THEN StartFail(FALSE)
         ELSE /\ spc' = IF set_search_addr THEN "exec" ELSE "ctl_start"
              /\ UNCHANGED <<startRet, remoteLog>>
    /\ UNCHANGED <<loop_i, s_rtt_rx_channel, s_rtt_tx_channel, upQueries,
                   downQueries, s_rtt_thread, s_rtt_rx_queue, s_req_stop>>
    /\ StartFrame

\* lines 209-215: JLINK_ExecCommand(cmd)
Start_ExecCommand ==
    /\ spc = "exec"
    /\ \E ret \in StatusAnswers :
         IF ret < 0
           THEN /\ spc' = "returned"
                /\ startRet' = -1
                /\ remoteLog' = Append(remoteLog, "EXEC_FAIL")
           ELSE /\ spc' = "ctl_start"
                /\ remoteLog' = Append(remoteLog, "EXEC")
                /\ UNCHANGED startRet
    /\ UNCHANGED <<loop_i, s_rtt_up_buffer_num, s_rtt_down_buffer_num,
                   s_rtt_rx_channel, s_rtt_tx_channel, upQueries, downQueries,
                   s_rtt_thread, s_rtt_rx_queue, s_req_stop, watchdogState,
                   s_last_data_time>>
    /\ StartFrame

\* lines 217-222: JLINK_RTTERMINAL_Control(RTT_CMD_START)
Start_ControlStart ==
    /\ spc = "ctl_start"
    /\ \E ret \in StatusAnswers :
         IF ret < 0
           THEN /\ spc' = "returned"
                /\ startRet' = -1
                /\ remoteLog' = Append(remoteLog, "START_FAIL")
                /\ UNCHANGED loop_i
           ELSE /\ spc' = "up_query"
                /\ remoteLog' = Append(remoteLog, "START")
                /\ loop_i' = 0
                /\ UNCHANGED startRet
    /\ UNCHANGED <<s_rtt_up_buffer_num, s_rtt_down_buffer_num,
                   s_rtt_rx_channel, s_rtt_tx_channel, upQueries, downQueries,
                   s_rtt_thread, s_rtt_rx_queue, s_req_stop, watchdogState,
                   s_last_data_time>>
    /\ StartFrame

\* lines 223-228: one iteration of the up-direction discovery loop
Start_UpQuery ==
    /\ spc = "up_query"
    /\ loop_i < RTT_FIND_BUFFER_MAX_RETRY_COUNT
    /\ \E n \in BufferNumAnswers :
         /\ s_rtt_up_buffer_num' = n
         /\ upQueries' = upQueries + 1
         /\ IF n >= 0
              THEN spc' = "up_check" /\ UNCHANGED loop_i
              ELSE /\ loop_i' = loop_i + 1
                   /\ spc' = IF loop_i + 1 < RTT_FIND_BUFFER_MAX_RETRY_COUNT
                               THEN "up_query" ELSE "up_check"
    /\ UNCHANGED <<s_rtt_down_buffer_num, s_rtt_rx_channel, s_rtt_tx_channel,
                   startRet, remoteLog, downQueries, s_rtt_thread,
                   s_rtt_rx_queue, s_req_stop, watchdogState,
                   s_last_data_time>>
    /\ StartFrame

\* lines 230-244: the up count and the rx range are validated
Start_UpCheck ==
    /\ spc = "up_check"
    /\ IF s_rtt_up_buffer_num < 0 \/ arg_rx > s_rtt_up_buffer_num
         THEN StartFail(TRUE) /\ UNCHANGED <<s_rtt_rx_channel, loop_i>>
         ELSE /\ s_rtt_rx_channel' = arg_rx
              /\ loop_i' = 0
              /\ spc' = IF arg_tx >= 0 THEN "down_query" ELSE "spawn"
              /\ UNCHANGED <<startRet, remoteLog>>
    /\ UNCHANGED <<s_rtt_up_buffer_num, s_rtt_down_buffer_num,
                   s_rtt_tx_channel, upQueries, downQueries, s_rtt_thread,
                   s_rtt_rx_queue, s_req_stop, watchdogState,
                   s_last_data_time>>
    /\ StartFrame

\* a faulty variant of Start_DownQuery: the loop has no retry limit
Start_DownQuery_NoLimit ==
    /\ spc = "down_query"
    /\ \E n \in BufferNumAnswers :
         /\ s_rtt_down_buffer_num' = n
         /\ downQueries' = downQueries + 1
         /\ loop_i' = loop_i
         /\ spc' = IF n >= 0 THEN "down_check" ELSE "down_query"
    /\ UNCHANGED <<s_rtt_up_buffer_num, s_rtt_rx_channel, s_rtt_tx_channel,
                   startRet, remoteLog, upQueries, s_rtt_thread,
                   s_rtt_rx_queue, s_req_stop, watchdogState,
                   s_last_data_time>>
    /\ StartFrame

\* lines 245-251: one iteration of the down-direction discovery loop
Start_DownQuery ==
    /\ spc = "down_query"
    /\ loop_i < RTT_FIND_BUFFER_DOWN_MAX_RETRY_COUNT
    /\ \E n \in BufferNumAnswers :
         /\ s_rtt_down_buffer_num' = n
         /\ downQueries' = downQueries + 1
         /\ IF n >= 0
              THEN spc' = "down_check" /\ UNCHANGED loop_i
              ELSE /\ loop_i' = loop_i + 1
                   /\ spc' = IF loop_i + 1 < RTT_FIND_BUFFER_DOWN_MAX_RETRY_COUNT
                               THEN "down_query" ELSE "down_check"
    /\ UNCHANGED <<s_rtt_up_buffer_num, s_rtt_rx_channel, s_rtt_tx_channel,
                   startRet, remoteLog, upQueries, s_rtt_thread,
                   s_rtt_rx_queue, s_req_stop, watchdogState,
                   s_last_data_time>>
    /\ StartFrame

\* a faulty variant of Start_DownCheck: the tx range test is missing
Start_DownCheck_NoRange ==
    /\ spc = "down_check"
    /\ IF s_rtt_down_buffer_num < 0
         THEN StartFail(TRUE)
         ELSE spc' = "spawn" /\ UNCHANGED <<startRet, remoteLog>>
    /\ UNCHANGED <<loop_i, s_rtt_up_buffer_num, s_rtt_down_buffer_num,
                   s_rtt_rx_channel, s_rtt_tx_channel, upQueries, downQueries,
                   s_rtt_thread, s_rtt_rx_queue, s_req_stop, watchdogState,
                   s_last_data_time>>
    /\ StartFrame

\* lines 253-263: the down count and the tx range are validated
Start_DownCheck ==
    /\ spc = "down_check"
    /\ IF s_rtt_down_buffer_num < 0 \/ arg_tx > s_rtt_down_buffer_num
         THEN StartFail(TRUE)
         ELSE spc' = "spawn" /\ UNCHANGED <<startRet, remoteLog>>
    /\ UNCHANGED <<loop_i, s_rtt_up_buffer_num, s_rtt_down_buffer_num,
                   s_rtt_rx_channel, s_rtt_tx_channel, upQueries, downQueries,
                   s_rtt_thread, s_rtt_rx_queue, s_req_stop, watchdogState,
                   s_last_data_time>>
    /\ StartFrame

\* lines 265-271: arm the tx channel, clear the stop flag and the queue,
\* create the worker thread, return 0
Start_Spawn ==
    /\ spc = "spawn"
    /\ s_rtt_tx_channel' = arg_tx
    /\ s_req_stop' = FALSE
    /\ s_rtt_rx_queue' = <<>>
    /\ s_rtt_thread' = TRUE
    /\ startRet' = 0
    /\ spc' = "returned"
    /\ UNCHANGED <<loop_i, s_rtt_up_buffer_num, s_rtt_down_buffer_num,
                   s_rtt_rx_channel, remoteLog, upQueries, downQueries,
                   watchdogState, s_last_data_time>>
    /\ StartFrame

NextStart ==
    \/ Start_Entry
    \/ Start_ExecCommand
    \/ Start_ControlStart
    \/ Start_UpQuery
    \/ Start_UpCheck
    \/ Start_DownQuery
    \/ Start_DownCheck
    \/ Start_Spawn

SpecStart == InitStart /\ [][NextStart]_vars

(***************************************************************************)
(* The receive callback: terminal_display_record_write                     *)
(***************************************************************************)
\* the chunk call number k of the receive callback carries: len > 0 bytes,
\* every byte of a session different
RxChunks(k) == {TxText(k, n) : n \in 1 .. MaxChunkLen}

\* terminal_display_record.cpp lines 398-405; the lock is not to be had
\* while the sink thread is between its tests and its wait
terminal_display_record_write(chunk) ==
    IF chunk = <<>>
      THEN UNCHANGED <<tdr_rtt_rx_queue, tdr_cv_notified, h_written>>
      ELSE /\ kpc # "enter_wait"
           /\ tdr_rtt_rx_queue' = Append(tdr_rtt_rx_queue, chunk)
           /\ tdr_cv_notified' = (tdr_cv_notified \/ kpc = "wait")
           /\ h_written' = h_written \o chunk

(***************************************************************************)
(* The relay session: rtt_thread, timeout_thread, jlink_rtt_transmit,      *)
(* jlink_rtt_stop                                                          *)
(***************************************************************************)
\* the state jlink_rtt_start leaves when it returns 0 (tx armed or not),
\* with both threads at the top of their loops; an error callback has been
\* registered with jlink_rtt_set_error_callback (main.cpp registers none,
\* and then every `if (s_err_cb)` is skipped)
RelayStarted ==
    /\ spc = "returned"
    /\ arg_tx \in {-1, 0}
    /\ arg_rx = 0
    /\ arg_addr = 0
    /\ arg_range = 0
    /\ loop_i = 0
    /\ s_rtt_up_buffer_num = 1
    /\ s_rtt_down_buffer_num = IF arg_tx >= 0 THEN 1 ELSE -1
    /\ s_rtt_rx_channel = 0
    /\ s_rtt_tx_channel = arg_tx
    /\ startRet = 0
    /\ remoteLog = <<"START">>
    /\ upQueries = 1
    /\ downQueries = IF arg_tx >= 0 THEN 1 ELSE 0
    /\ s_rtt_thread = TRUE
    /\ s_rtt_rx_queue = <<>>
    /\ data = <<>>
    /\ read_state = "TRY_READ"
    /\ s_req_stop = FALSE
    /\ wpc = "lock"
    /\ tpc = "loop"
    /\ mpc = "run"
    /\ s_ctrl_c_pending = FALSE
    /\ s_ctrl_c_timeout_active = FALSE
    /\ s_ctrl_c_sent_time = 0
    /\ s_last_data_time = 0
    /\ clock = 1
    /\ t_now = 0
    /\ s_err_cb = TRUE
    /\ cv_notified = FALSE
    /\ s_mtx = "free"
    /\ txRet = 0
    /\ nTransmit = 0
    /\ nFault = 0
    /\ h_accepted = <<>>
    /\ h_consumed = <<>>
    /\ h_ioErrCalls = 0
    /\ h_gen = 0
    /\ h_sentGen = 0
    /\ h_live = 0
    /\ h_answered = {}
    /\ h_fired = <<>>
    /\ t_gen = 0

\* a relay session before terminal_display_record_start() and before a
\* receive callback is registered (main.cpp lines 143-157)
InitRelay ==
    /\ RelayStarted
    /\ StaticTerm
    /\ StaticSink

RECURSIVE Flatten(_)
\* the chunks of a queue, front first, joined into one byte sequence
Flatten(q) == IF q = <<>> THEN <<>> ELSE Head(q) \o Flatten(Tail(q))

\* lines 113-116: every queued chunk is appended behind the left-over bytes
MergeQueue(d, q) == d \o Flatten(q)

\* a faulty variant of EraseFront: the whole buffer is dropped after a write
EraseFront_All(d, ret) == IF ret >= 0 THEN <<>> ELSE d

\* line 143: data.erase(begin, begin + ret)
EraseFront(d, ret) == SubSeq(d, ret + 1, Len(d))

\* a faulty variant of is_isolated_ctrl_c: the isolation window is not tested
is_isolated_ctrl_c_NoWindow(d) == Len(d) = 1 /\ d[1] = CTRL_C_CHAR

\* lines 54-69
is_isolated_ctrl_c(d) ==
    IF Len(d) # 1 \/ d[1] # CTRL_C_CHAR
      THEN FALSE
      ELSE IF /\ s_last_data_time # 0
              /\ ElapsedMs(clock, s_last_data_time) < CTRL_C_ISOLATION_MS
             THEN FALSE
             ELSE TRUE

\* line 78-79: the watchdog's timeout test on its two samples
TimeoutElapsed(now, sent) ==
    sent # 0 /\ ElapsedMs(now, sent) >= CTRL_C_TIMEOUT_MS

\* what the relay session never touches
RelayFrame ==
    UNCHANGED <<startLocal, s_rtt_tx_channel, s_err_cb, s_mtx, termVars>>

\* steady_clock advances
Tick ==
    /\ clock < MaxClock
    /\ clock' = clock + 1
    /\ UNCHANGED <<s_rtt_rx_queue, data, read_state, s_req_stop, wpc, mpc,
                   watchdogState, watchdogLocal, watchdogHist,
                   s_last_data_time, cv_notified, txHist, nFault,
                   h_ioErrCalls, remoteLog, s_rtt_thread>>
    /\ RelayFrame

\* ---- rtt_thread ----

\* a faulty variant of Worker_Lock: a read that is due comes before the
\* pending bytes
Worker_Lock_ReadFirst ==
    /\ wpc = "lock"
    /\ IF read_state = "TRY_READ" /\ ~s_req_stop
         THEN /\ wpc' = "process_read"
              /\ UNCHANGED <<data, s_rtt_rx_queue>>
         ELSE IF s_rtt_rx_queue # <<>> \/ data # <<>>
         THEN /\ data' = MergeQueue(data, s_rtt_rx_queue)
              /\ s_rtt_rx_queue' = <<>>
              /\ wpc' = "process_data"
         ELSE /\ wpc' = IF s_req_stop THEN "quit" ELSE "wait"
              /\ UNCHANGED <<data, s_rtt_rx_queue>>
    /\ UNCHANGED <<read_state, s_req_stop, mpc, watchdogState, watchdogLocal,
                   watchdogHist, s_last_data_time, clock, cv_notified, txHist,
                   nFault, h_ioErrCalls, remoteLog, s_rtt_thread>>
    /\ RelayFrame

\* a faulty variant of Worker_Lock: the stop flag is tested first
Worker_Lock_StopFirst ==
    /\ wpc = "lock"
    /\ IF s_req_stop
         THEN /\ wpc' = "quit"
              /\ UNCHANGED <<data, s_rtt_rx_queue>>
         ELSE IF s_rtt_rx_queue # <<>> \/ data # <<>>
         THEN /\ data' = MergeQueue(data, s_rtt_rx_queue)
              /\ s_rtt_rx_queue' = <<>>
              /\ wpc' = "process_data"
         ELSE /\ wpc' = IF read_state = "TRY_READ" THEN "process_read"
                        ELSE "wait"
              /\ UNCHANGED <<data, s_rtt_rx_queue>>
    /\ UNCHANGED <<read_state, s_req_stop, mpc, watchdogState, watchdogLocal,
                   watchdogHist, s_last_data_time, clock, cv_notified, txHist,
                   nFault, h_ioErrCalls, remoteLog, s_rtt_thread>>
    /\ RelayFrame

\* lines 110-125: the locked section at the top of the loop
Worker_Lock ==
    /\ wpc = "lock"
    /\ IF s_rtt_rx_queue # <<>> \/ data # <<>>
         THEN /\ data' = MergeQueue(data, s_rtt_rx_queue)
              /\ s_rtt_rx_queue' = <<>>
              /\ wpc' = "process_data"
         ELSE /\ wpc' = IF s_req_stop THEN "quit"
                        ELSE IF read_state = "TRY_READ" THEN "process_read"
                        ELSE "wait"
              /\ UNCHANGED <<data, s_rtt_rx_queue>>
    /\ UNCHANGED <<read_state, s_req_stop, mpc, watchdogState, watchdogLocal,
                   watchdogHist, s_last_data_time, clock, cv_notified, txHist,
                   nFault, h_ioErrCalls, remoteLog, s_rtt_thread>>
    /\ RelayFrame

\* lines 125-126: wait_for returns (time-out or notification)
Worker_Wake ==
    /\ wpc = "wait"
    /\ read_state' = "TRY_READ"
    /\ cv_notified' = FALSE
    /\ wpc' = "lock"
    /\ UNCHANGED <<s_rtt_rx_queue, data, s_req_stop, mpc, watchdogState,
                   watchdogLocal, watchdogHist, s_last_data_time, clock,
                   txHist, nFault, h_ioErrCalls, remoteLog, s_rtt_thread>>
    /\ RelayFrame

\* lines 131-132: the isolation test and the first store
Worker_CheckIsolated ==
    /\ wpc = "process_data"
    /\ IF is_isolated_ctrl_c(data)
         THEN /\ s_ctrl_c_pending' = TRUE
              /\ h_gen' = h_gen + 1
              /\ h_fired' = Append(h_fired, 0)
              /\ wpc' = "store_sent"
         ELSE /\ wpc' = "write"
              /\ UNCHANGED <<s_ctrl_c_pending, h_gen, h_fired>>
    /\ UNCHANGED <<s_rtt_rx_queue, data, read_state, s_req_stop, mpc,
                   s_ctrl_c_timeout_active, s_ctrl_c_sent_time, watchdogLocal,
                   h_sentGen, h_live, h_answered, s_last_data_time, clock,
                   cv_notified, txHist, nFault, h_ioErrCalls, remoteLog,
                   s_rtt_thread>>
    /\ RelayFrame

\* line 133
Worker_StoreSent ==
    /\ wpc = "store_sent"
    /\ s_ctrl_c_sent_time' = clock
    /\ h_sentGen' = h_gen
    /\ wpc' = "store_active"
    /\ UNCHANGED <<s_rtt_rx_queue, data, read_state, s_req_stop, mpc,
                   s_ctrl_c_pending, s_ctrl_c_timeout_active, watchdogLocal,
                   h_gen, h_live, h_answered, h_fired, s_last_data_time, clock,
                   cv_notified, txHist, nFault, h_ioErrCalls, remoteLog,
                   s_rtt_thread>>
    /\ RelayFrame

\* line 134
Worker_StoreActive ==
    /\ wpc = "store_active"
    /\ s_ctrl_c_timeout_active' = TRUE
    /\ h_live' = h_gen
    /\ wpc' = "write"
    /\ UNCHANGED <<s_rtt_rx_queue, data, read_state, s_req_stop, mpc,
                   s_ctrl_c_pending, s_ctrl_c_sent_time, watchdogLocal,
                   h_gen, h_sentGen, h_answered, h_fired, s_last_data_time,
                   clock, cv_notified, txHist, nFault, h_ioErrCalls,
                   remoteLog, s_rtt_thread>>
    /\ RelayFrame

\* a faulty variant of Worker_Write: a failed write drops the pending bytes
Worker_Write_DropOnFault ==
    /\ wpc = "write"
    /\ s_last_data_time' = clock
    /\ \E ret \in -1 .. Len(data) :
         IF ret >= 0
           THEN /\ h_consumed' = h_consumed \o SubSeq(data, 1, ret)
                /\ data' = EraseFront(data, ret)
                /\ UNCHANGED <<nFault, h_ioErrCalls>>
           ELSE /\ nFault < MaxFaults
                /\ nFault' = nFault + 1
                /\ h_ioErrCalls' = IF s_err_cb THEN h_ioErrCalls + 1
                                   ELSE h_ioErrCalls
                /\ data' = <<>>
                /\ UNCHANGED h_consumed
    /\ wpc' = "lock"
    /\ UNCHANGED <<s_rtt_rx_queue, read_state, s_req_stop, mpc, watchdogState,
                   watchdogLocal, watchdogHist, clock, cv_notified, txRet,
                   nTransmit, h_accepted, remoteLog, s_rtt_thread>>
    /\ RelayFrame

\* lines 138-150: JLINK_RTTERMINAL_Write answers ret, -1 <= ret <= size
Worker_Write ==
    /\ wpc = "write"
    /\ s_last_data_time' = clock
    /\ \E ret \in -1 .. Len(data) :
         IF ret >= 0
           THEN /\ h_consumed' = h_consumed \o SubSeq(data, 1, ret)
                /\ data' = EraseFront(data, ret)
                /\ UNCHANGED <<nFault, h_ioErrCalls>>
           ELSE /\ nFault < MaxFaults
                /\ nFault' = nFault + 1
                /\ h_ioErrCalls' = IF s_err_cb THEN h_ioErrCalls + 1
                                   ELSE h_ioErrCalls
                /\ UNCHANGED <<data, h_consumed>>
    /\ wpc' = "lock"
    /\ UNCHANGED <<s_rtt_rx_queue, read_state, s_req_stop, mpc, watchdogState,
                   watchdogLocal, watchdogHist, clock, cv_notified, txRet,
                   nTransmit, h_accepted, remoteLog, s_rtt_thread>>
    /\ RelayFrame

\* is the interrupt whose time stamp is stored answered within the timeout
AnsweredInTime ==
    /\ s_ctrl_c_pending
    /\ s_ctrl_c_sent_time # 0
    /\ ElapsedMs(clock, s_ctrl_c_sent_time) < CTRL_C_TIMEOUT_MS

\* lines 153-171: JLINK_RTTERMINAL_Read answers len (1 stands for any len > 0)
Worker_Read ==
    /\ wpc = "process_read"
    /\ \E len \in {-1, 0, 1} :
         IF len > 0
           THEN /\ s_rx_cb => nRecv < MaxReceives
                /\ wpc' = "read_check"
                /\ h_live' = 0
                /\ h_answered' = IF AnsweredInTime
                                   THEN h_answered \cup {h_sentGen}
                                   ELSE h_answered
                /\ UNCHANGED <<read_state, nFault, h_ioErrCalls>>
           ELSE IF len = 0
           THEN /\ read_state' = "IDLE"
                /\ wpc' = "lock"
                /\ UNCHANGED <<nFault, h_ioErrCalls, h_live, h_answered>>
           ELSE /\ nFault < MaxFaults
                /\ nFault' = nFault + 1
                /\ h_ioErrCalls' = IF s_err_cb THEN h_ioErrCalls + 1
                                   ELSE h_ioErrCalls
                /\ wpc' = "lock"
                /\ UNCHANGED <<read_state, h_live, h_answered>>
    /\ UNCHANGED <<s_rtt_rx_queue, data, s_req_stop, mpc, watchdogState,
                   watchdogLocal, h_gen, h_sentGen, h_fired,
                   s_last_data_time, clock, cv_notified, txHist, remoteLog,
                   s_rtt_thread>>
    /\ RelayFrame

\* lines 156-157: if pending, pending.store(false); else on to the receive
\* callback of lines 162-163
Worker_ReadClearPending ==
    /\ wpc = "read_check"
    /\ IF s_ctrl_c_pending
         THEN s_ctrl_c_pending' = FALSE /\ wpc' = "clear_active"
         ELSE UNCHANGED s_ctrl_c_pending /\ wpc' = "recv_cb"
    /\ UNCHANGED <<s_rtt_rx_queue, data, read_state, s_req_stop, mpc,
                   s_ctrl_c_timeout_active, s_ctrl_c_sent_time, watchdogLocal,
                   watchdogHist, s_last_data_time, clock, cv_notified, txHist,
                   nFault, h_ioErrCalls, remoteLog, s_rtt_thread>>
    /\ RelayFrame

\* line 158
Worker_ReadClearActive ==
    /\ wpc = "clear_active"
    /\ s_ctrl_c_timeout_active' = FALSE
    /\ wpc' = "clear_sent"
    /\ UNCHANGED <<s_rtt_rx_queue, data, read_state, s_req_stop, mpc,
                   s_ctrl_c_pending, s_ctrl_c_sent_time, watchdogLocal,
                   watchdogHist, s_last_data_time, clock, cv_notified, txHist,
                   nFault, h_ioErrCalls, remoteLog, s_rtt_thread>>
    /\ RelayFrame

\* line 159: the time stamp is cleared
Worker_ReadClearSent ==
    /\ wpc = "clear_sent"
    /\ s_ctrl_c_sent_time' = 0
    /\ h_sentGen' = 0
    /\ wpc' = "recv_cb"
    /\ UNCHANGED <<s_rtt_rx_queue, data, read_state, s_req_stop, mpc,
                   s_ctrl_c_pending, s_ctrl_c_timeout_active, watchdogLocal,
                   h_gen, h_live, h_answered, h_fired, s_last_data_time, clock,
                   cv_notified, txHist, nFault, h_ioErrCalls, remoteLog,
                   s_rtt_thread>>
    /\ RelayFrame

\* lines 162-163: if (s_rx_cb) s_rx_cb(s_rtt_rx_buf, len), the callback being
\* terminal_display_record_write (main.cpp line 157)
Worker_RecvCallback ==
    /\ wpc = "recv_cb"
    /\ IF s_rx_cb
         THEN /\ \E chunk \in RxChunks(nRecv) :
                   terminal_display_record_write(chunk)
              /\ nRecv' = nRecv + 1
         ELSE UNCHANGED <<tdr_rtt_rx_queue, tdr_cv_notified, h_written, nRecv>>
    /\ wpc' = "lock"
    /\ UNCHANGED <<s_rtt_rx_queue, data, read_state, s_req_stop, mpc,
                   watchdogState, watchdogLocal, watchdogHist,
                   s_last_data_time, clock, cv_notified, txHist, nFault,
                   h_ioErrCalls, remoteLog, s_rtt_thread>>
    /\ UNCHANGED <<startLocal, s_rtt_tx_channel, s_err_cb, s_mtx, editorVars>>
    /\ UNCHANGED <<tdr_data, tdr_req_stop, tdr_thread, kpc, xpc, log_open,
                   s_rx_cb, h_atStop>>

\* line 174
Worker_Quit ==
    /\ wpc = "quit"
    /\ s_req_stop' = TRUE
    /\ wpc' = "join"
    /\ UNCHANGED <<s_rtt_rx_queue, data, read_state, mpc, watchdogState,
                   watchdogLocal, watchdogHist, s_last_data_time, clock,
                   cv_notified, txHist, nFault, h_ioErrCalls, remoteLog,
                   s_rtt_thread>>
    /\ RelayFrame

\* lines 175-176: timeout_detector.join() returns once that thread has ended
Worker_Join ==
    /\ wpc = "join"
    /\ tpc = "done"
    /\ wpc' = "done"
    /\ UNCHANGED <<s_rtt_rx_queue, data, read_state, s_req_stop, mpc,
                   watchdogState, watchdogLocal, watchdogHist,
                   s_last_data_time, clock, cv_notified, txHist, nFault,
                   h_ioErrCalls, remoteLog, s_rtt_thread>>
    /\ RelayFrame

\* ---- timeout_thread ----

\* line 73: the loop condition
Watchdog_Loop ==
    /\ tpc = "loop"
    /\ tpc' = IF s_req_stop THEN "done" ELSE "check_pending"
    /\ UNCHANGED <<s_rtt_rx_queue, data, read_state, s_req_stop, wpc, mpc,
                   watchdogState, t_now, t_gen, watchdogHist,
                   s_last_data_time, clock, cv_notified, txHist, nFault,
                   h_ioErrCalls, remoteLog, s_rtt_thread>>
    /\ RelayFrame

\* line 74, left operand: s_ctrl_c_pending.load()
Watchdog_CheckPending ==
    /\ tpc = "check_pending"
    /\ tpc' = IF s_ctrl_c_pending THEN "check_active" ELSE "sleep"
    /\ UNCHANGED <<s_rtt_rx_queue, data, read_state, s_req_stop, wpc, mpc,
                   watchdogState, t_now, t_gen, watchdogHist,
                   s_last_data_time, clock, cv_notified, txHist, nFault,
                   h_ioErrCalls, remoteLog, s_rtt_thread>>
    /\ RelayFrame

\* line 74, right operand: s_ctrl_c_timeout_active.load()
Watchdog_CheckActive ==
    /\ tpc = "check_active"
    /\ tpc' = IF s_ctrl_c_timeout_active THEN "sample_now" ELSE "sleep"
    /\ UNCHANGED <<s_rtt_rx_queue, data, read_state, s_req_stop, wpc, mpc,
                   watchdogState, t_now, t_gen, watchdogHist,
                   s_last_data_time, clock, cv_notified, txHist, nFault,
                   h_ioErrCalls, remoteLog, s_rtt_thread>>
    /\ RelayFrame

\* line 75
Watchdog_SampleNow ==
    /\ tpc = "sample_now"
    /\ t_now' = clock
    /\ tpc' = "load_sent"
    /\ UNCHANGED <<s_rtt_rx_queue, data, read_state, s_req_stop, wpc, mpc,
                   watchdogState, t_gen, watchdogHist,
                   s_last_data_time, clock, cv_notified, txHist, nFault,
                   h_ioErrCalls, remoteLog, s_rtt_thread>>
    /\ RelayFrame

\* lines 76-79: s_ctrl_c_sent_time.load() and the timeout test
Watchdog_LoadSent ==
    /\ tpc = "load_sent"
    /\ IF TimeoutElapsed(t_now, s_ctrl_c_sent_time)
         THEN tpc' = "callback" /\ t_gen' = h_sentGen
         ELSE tpc' = "sleep" /\ t_gen' = 0
    /\ t_now' = 0
    /\ UNCHANGED <<s_rtt_rx_queue, data, read_state, s_req_stop, wpc, mpc,
                   watchdogState, watchdogHist, s_last_data_time,
                   clock, cv_notified, txHist, nFault, h_ioErrCalls,
                   remoteLog, s_rtt_thread>>
    /\ RelayFrame

\* lines 82-84: if (s_err_cb) s_err_cb()
Watchdog_Callback ==
    /\ tpc = "callback"
    /\ h_fired' = IF s_err_cb THEN [h_fired EXCEPT ![t_gen] = @ + 1]
                  ELSE h_fired
    /\ h_live' = IF h_live = t_gen THEN 0 ELSE h_live
    /\ t_gen' = 0
    /\ tpc' = "reset_pending"
    /\ UNCHANGED <<s_rtt_rx_queue, data, read_state, s_req_stop, wpc, mpc,
                   watchdogState, t_now, h_gen, h_sentGen,
                   h_answered, s_last_data_time, clock, cv_notified, txHist,
                   nFault, h_ioErrCalls, remoteLog, s_rtt_thread>>
    /\ RelayFrame

\* line 87
Watchdog_ResetPending ==
    /\ tpc = "reset_pending"
    /\ s_ctrl_c_pending' = FALSE
    /\ tpc' = "reset_active"
    /\ UNCHANGED <<s_rtt_rx_queue, data, read_state, s_req_stop, wpc, mpc,
                   s_ctrl_c_timeout_active, s_ctrl_c_sent_time, t_now,
                   t_gen, watchdogHist, s_last_data_time, clock, cv_notified,
                   txHist, nFault, h_ioErrCalls, remoteLog, s_rtt_thread>>
    /\ RelayFrame

\* line 88
Watchdog_ResetActive ==
    /\ tpc = "reset_active"
    /\ s_ctrl_c_timeout_active' = FALSE
    /\ tpc' = "reset_sent"
    /\ UNCHANGED <<s_rtt_rx_queue, data, read_state, s_req_stop, wpc, mpc,
                   s_ctrl_c_pending, s_ctrl_c_sent_time, t_now,
                   t_gen, watchdogHist, s_last_data_time, clock, cv_notified,
                   txHist, nFault, h_ioErrCalls, remoteLog, s_rtt_thread>>
    /\ RelayFrame

\* line 89
Watchdog_ResetSent ==
    /\ tpc = "reset_sent"
    /\ s_ctrl_c_sent_time' = 0
    /\ h_sentGen' = 0
    /\ tpc' = "sleep"
    /\ UNCHANGED <<s_rtt_rx_queue, data, read_state, s_req_stop, wpc, mpc,
                   s_ctrl_c_pending, s_ctrl_c_timeout_active, t_now,
                   t_gen, h_gen, h_live, h_answered, h_fired,
                   s_last_data_time, clock, cv_notified, txHist, nFault,
                   h_ioErrCalls, remoteLog, s_rtt_thread>>
    /\ RelayFrame

\* line 93: sleep_for(10 ms) returns
Watchdog_Sleep ==
    /\ tpc = "sleep"
    /\ tpc' = "loop"
    /\ UNCHANGED <<s_rtt_rx_queue, data, read_state, s_req_stop, wpc, mpc,
                   watchdogState, t_now, t_gen, watchdogHist,
                   s_last_data_time, clock, cv_notified, txHist, nFault,
                   h_ioErrCalls, remoteLog, s_rtt_thread>>
    /\ RelayFrame

\* ---- the caller ----

\* a faulty variant of jlink_rtt_transmit: the tx channel is not tested
jlink_rtt_transmit_NoTest(chunk) ==
    /\ mpc = "run"
    /\ nTransmit < MaxTransmits
    /\ nTransmit' = nTransmit + 1
    /\ s_rtt_rx_queue' = Append(s_rtt_rx_queue, chunk)
    /\ cv_notified' = (cv_notified \/ wpc = "wait")
    /\ txRet' = Len(chunk)
    /\ h_accepted' = h_accepted \o chunk
    /\ UNCHANGED <<data, read_state, s_req_stop, wpc, mpc, watchdogState,
                   watchdogLocal, watchdogHist, s_last_data_time, clock,
                   nFault, h_consumed, h_ioErrCalls, remoteLog, s_rtt_thread>>
    /\ RelayFrame

\* lines 291-298
jlink_rtt_transmit(chunk) ==
    /\ mpc = "run"
    /\ nTransmit < MaxTransmits
    /\ nTransmit' = nTransmit + 1
    /\ IF s_rtt_tx_channel < 0
         THEN /\ txRet' = -1
              /\ UNCHANGED <<s_rtt_rx_queue, cv_notified, h_accepted>>
         ELSE /\ s_rtt_rx_queue' = Append(s_rtt_rx_queue, chunk)
              /\ cv_notified' = (cv_notified \/ wpc = "wait")
              /\ txRet' = Len(chunk)
              /\ h_accepted' = h_accepted \o chunk
    /\ UNCHANGED <<data, read_state, s_req_stop, wpc, mpc, watchdogState,
                   watchdogLocal, watchdogHist, s_last_data_time, clock,
                   nFault, h_consumed, h_ioErrCalls, remoteLog, s_rtt_thread>>
    /\ RelayFrame

\* main.cpp line 173: a pasted text of any length
Transmit == \E chunk \in TxChunks(nTransmit) : jlink_rtt_transmit(chunk)

\* main.cpp line 167: one key
TransmitKey == \E chunk \in KeyChunks : jlink_rtt_transmit(chunk)

\* line 275
Stop_Request ==
    /\ mpc = "run"
    /\ s_req_stop' = TRUE
    /\ mpc' = "join"
    /\ UNCHANGED <<s_rtt_rx_queue, data, read_state, wpc, watchdogState,
                   watchdogLocal, watchdogHist, s_last_data_time, clock,
                   cv_notified, txHist, nFault, h_ioErrCalls, remoteLog,
                   s_rtt_thread>>
    /\ RelayFrame

\* lines 276-279: join returns, the thread object is deleted, RTT_CMD_STOP
Stop_Join ==
    /\ mpc = "join"
    /\ wpc = "done"
    /\ s_rtt_thread' = FALSE
    /\ remoteLog' = Append(remoteLog, "STOP")
    /\ mpc' = "stopped"
    /\ UNCHANGED <<s_rtt_rx_queue, data, read_state, s_req_stop, wpc,
                   watchdogState, watchdogLocal, watchdogHist,
                   s_last_data_time, clock, cv_notified, txHist, nFault,
                   h_ioErrCalls>>
    /\ RelayFrame

\* the relay session within one tick of the clock: no timeout can elapse,
\* so the watchdog polls and sleeps but never fires; any chunk is transmitted
NextRelay ==
    \/ Worker_Lock
    \/ Worker_Wake
    \/ Worker_CheckIsolated
    \/ Worker_StoreSent
    \/ Worker_StoreActive
    \/ Worker_Write
    \/ Worker_Read
    \/ Worker_ReadClearPending
    \/ Worker_ReadClearActive
    \/ Worker_ReadClearSent
    \/ Worker_RecvCallback
    \/ Worker_Quit
    \/ Worker_Join
    \/ Watchdog_Loop
    \/ Watchdog_CheckPending
    \/ Watchdog_CheckActive
    \/ Watchdog_SampleNow
    \/ Watchdog_LoadSent
    \/ Watchdog_Sleep
    \/ Transmit
    \/ Stop_Request
    \/ Stop_Join

SpecRelay == InitRelay /\ [][NextRelay]_vars

\* a remote write that accepts at least one byte
Worker_WriteProgress == Worker_Write /\ Len(data') < Len(data)

\* the threads of the relay are scheduled in the end whenever they can take
\* a step, jlink_rtt_stop() goes on once its join can return, and a remote
\* that is offered bytes again and again accepts some in the end
RelayFairness ==
    /\ WF_vars(Worker_Lock)
    /\ WF_vars(Worker_Wake)
    /\ WF_vars(Worker_CheckIsolated)
    /\ WF_vars(Worker_StoreSent)
    /\ WF_vars(Worker_StoreActive)
    /\ WF_vars(Worker_Write)
    /\ SF_vars(Worker_WriteProgress)
    /\ WF_vars(Worker_Read)
    /\ WF_vars(Worker_ReadClearPending)
    /\ WF_vars(Worker_ReadClearActive)
    /\ WF_vars(Worker_ReadClearSent)
    /\ WF_vars(Worker_RecvCallback)
    /\ WF_vars(Worker_Quit)
    /\ WF_vars(Worker_Join)
    /\ WF_vars(Watchdog_Loop)
    /\ WF_vars(Watchdog_CheckPending)
    /\ WF_vars(Watchdog_CheckActive)
    /\ WF_vars(Watchdog_SampleNow)
    /\ WF_vars(Watchdog_LoadSent)
    /\ WF_vars(Watchdog_Sleep)
    /\ WF_vars(Stop_Join)

SpecRelayLive == SpecRelay /\ RelayFairness

\* ---- the relay with the steps of s_mtx told apart ----

\* what the steps on s_mtx never touch
MutexFrame ==
    UNCHANGED <<startLocal, s_rtt_tx_channel, s_err_cb, termVars>>

\* line 110: std::unique_lock<std::mutex> lck(s_mtx)
Worker_Acquire ==
    /\ wpc = "lock"
    /\ s_mtx = "free"
    /\ s_mtx' = "worker"
    /\ wpc' = "locked"
    /\ UNCHANGED <<s_rtt_rx_queue, data, read_state, s_req_stop, mpc,
                   watchdogState, watchdogLocal, watchdogHist,
                   s_last_data_time, clock, cv_notified, txHist, nFault,
                   h_ioErrCalls, remoteLog, s_rtt_thread>>
    /\ MutexFrame

\* a faulty variant of Worker_Inspect: the jump to process_data keeps the
\* mutex
Worker_Inspect_KeepLock ==
    /\ wpc = "locked"
    /\ IF s_rtt_rx_queue # <<>> \/ data # <<>>
         THEN /\ data' = MergeQueue(data, s_rtt_rx_queue)
              /\ s_rtt_rx_queue' = <<>>
              /\ wpc' = "process_data"
              /\ s_mtx' = "worker"
         ELSE /\ wpc' = IF s_req_stop THEN "quit"
                        ELSE IF read_state = "TRY_READ" THEN "process_read"
                        ELSE "wait"
              /\ s_mtx' = "free"
              /\ UNCHANGED <<data, s_rtt_rx_queue>>
    /\ UNCHANGED <<read_state, s_req_stop, mpc, watchdogState, watchdogLocal,
                   watchdogHist, s_last_data_time, clock, cv_notified, txHist,
                   nFault, h_ioErrCalls, remoteLog, s_rtt_thread>>
    /\ MutexFrame

\* lines 111-125 with the mutex held: each goto leaves the scope of lck,
\* which unlocks, and wait_for unlocks while it waits
Worker_Inspect ==
    /\ wpc = "locked"
    /\ IF s_rtt_rx_queue # <<>> \/ data # <<>>
         THEN /\ data' = MergeQueue(data, s_rtt_rx_queue)
              /\ s_rtt_rx_queue' = <<>>
              /\ wpc' = "process_data"
         ELSE /\ wpc' = IF s_req_stop THEN "quit"
                        ELSE IF read_state = "TRY_READ" THEN "process_read"
                        ELSE "wait"
              /\ UNCHANGED <<data, s_rtt_rx_queue>>
    /\ s_mtx' = "free"
    /\ UNCHANGED <<read_state, s_req_stop, mpc, watchdogState, watchdogLocal,
                   watchdogHist, s_last_data_time, clock, cv_notified, txHist,
                   nFault, h_ioErrCalls, remoteLog, s_rtt_thread>>
    /\ MutexFrame

\* line 125: wait_for ends (time-out or notification) and locks again
Worker_Reacquire ==
    /\ wpc = "wait"
    /\ s_mtx = "free"
    /\ s_mtx' = "worker"
    /\ cv_notified' = FALSE
    /\ wpc' = "woken"
    /\ UNCHANGED <<s_rtt_rx_queue, data, read_state, s_req_stop, mpc,
                   watchdogState, watchdogLocal, watchdogHist,
                   s_last_data_time, clock, txHist, nFault, h_ioErrCalls,
                   remoteLog, s_rtt_thread>>
    /\ MutexFrame

\* lines 126-127: read_state is set and the iteration ends, which unlocks
Worker_EndWait ==
    /\ wpc = "woken"
    /\ read_state' = "TRY_READ"
    /\ s_mtx' = "free"
    /\ wpc' = "lock"
    /\ UNCHANGED <<s_rtt_rx_queue, data, s_req_stop, mpc, watchdogState,
                   watchdogLocal, watchdogHist, s_last_data_time, clock,
                   cv_notified, txHist, nFault, h_ioErrCalls, remoteLog,
                   s_rtt_thread>>
    /\ MutexFrame

\* line 292: the caller of jlink_rtt_transmit locks
Producer_Acquire ==
    /\ mpc = "run"
    /\ nTransmit < MaxTransmits
    /\ s_mtx = "free"
    /\ s_mtx' = "main"
    /\ UNCHANGED <<s_rtt_rx_queue, data, read_state, s_req_stop, wpc, mpc,
                   watchdogState, watchdogLocal, watchdogHist,
                   s_last_data_time, clock, cv_notified, txHist, nFault,
                   h_ioErrCalls, remoteLog, s_rtt_thread>>
    /\ MutexFrame

\* lines 293-297 with the mutex held; the return unlocks
Producer_Transmit ==
    /\ s_mtx = "main"
    /\ nTransmit' = nTransmit + 1
    /\ \E chunk \in TxChunks(nTransmit) :
         IF s_rtt_tx_channel < 0
           THEN /\ txRet' = -1
                /\ UNCHANGED <<s_rtt_rx_queue, cv_notified, h_accepted>>
           ELSE /\ s_rtt_rx_queue' = Append(s_rtt_rx_queue, chunk)
                /\ cv_notified' = (cv_notified \/ wpc = "wait")
                /\ txRet' = Len(chunk)
                /\ h_accepted' = h_accepted \o chunk
    /\ s_mtx' = "free"
    /\ UNCHANGED <<data, read_state, s_req_stop, wpc, mpc, watchdogState,
                   watchdogLocal, watchdogHist, s_last_data_time, clock,
                   nFault, h_consumed, h_ioErrCalls, remoteLog, s_rtt_thread>>
    /\ MutexFrame

\* jlink_rtt_stop() is called by the thread that transmits, between calls
Main_Stop == s_mtx # "main" /\ Stop_Request

NextMutex ==
    \/ Worker_Acquire
    \/ Worker_Inspect
    \/ Worker_Reacquire
    \/ Worker_EndWait
    \/ Worker_CheckIsolated
    \/ Worker_StoreSent
    \/ Worker_StoreActive
    \/ Worker_Write
    \/ Worker_Read
    \/ Worker_ReadClearPending
    \/ Worker_ReadClearActive
    \/ Worker_ReadClearSent
    \/ Worker_RecvCallback
    \/ Worker_Quit
    \/ Worker_Join
    \/ Watchdog_Loop
    \/ Watchdog_CheckPending
    \/ Watchdog_CheckActive
    \/ Watchdog_SampleNow
    \/ Watchdog_LoadSent
    \/ Watchdog_Sleep
    \/ Producer_Acquire
    \/ Producer_Transmit
    \/ Main_Stop
    \/ Stop_Join

\* the relay session with the clock running; the caller sends single keys
NextWatchdog ==
    \/ Tick
    \/ Worker_Lock
    \/ Worker_Wake
    \/ Worker_CheckIsolated
    \/ Worker_StoreSent
    \/ Worker_StoreActive
    \/ Worker_Write
    \/ Worker_Read
    \/ Worker_ReadClearPending
    \/ Worker_ReadClearActive
    \/ Worker_ReadClearSent
    \/ Worker_RecvCallback
    \/ Worker_Quit
    \/ Worker_Join
    \/ Watchdog_Loop
    \/ Watchdog_CheckPending
    \/ Watchdog_CheckActive
    \/ Watchdog_SampleNow
    \/ Watchdog_LoadSent
    \/ Watchdog_Callback
    \/ Watchdog_ResetPending
    \/ Watchdog_ResetActive
    \/ Watchdog_ResetSent
    \/ Watchdog_Sleep
    \/ TransmitKey
    \/ Stop_Request
    \/ Stop_Join

SpecWatchdog == InitRelay /\ [][NextWatchdog]_vars

(***************************************************************************)
(* Escape classifier: ehshell_escape_char_parse                            *)
(***************************************************************************)
\* lines 86-88
is_csi_final(c) == c >= 64 /\ c <= 126
is_middle_byte(c) == c >= 32 /\ c <= 47
is_param_byte(c) ==
    \/ (c >= CH_0 /\ c <= CH_9)
    \/ c = CH_SEMICOLON
    \/ c = CH_QUESTION
    \/ c = CH_GREATER
    \/ c = CH_LESS

\* a faulty variant of ParseReset: the token is returned, the state is kept
\* as a lone ESC leaves it
ParseReset_InEsc(buf, str) ==
    [state |-> TERMINAL_ESCAPE_MATCH_ESC, buf |-> buf, str |-> str,
     tok |-> ESCAPE_CHAR_CTRL_RESET]

\* lines 241-243: the reset label
ParseReset(buf, str) ==
    [state |-> TERMINAL_ESCAPE_MATCH_NONE, buf |-> buf, str |-> str,
     tok |-> ESCAPE_CHAR_CTRL_RESET]

\* a faulty variant of ParseBreak: a sequence that ends yields no token
ParseBreak_NoToken(state, buf, str) ==
    [state |-> state, buf |-> buf, str |-> str, tok |-> ESCAPE_CHAR_NUL]

\* lines 238-240: what follows the switch after a break
ParseBreak(state, buf, str) ==
    [state |-> state, buf |-> buf, str |-> str,
     tok |-> IF state = TERMINAL_ESCAPE_MATCH_NONE
               THEN ESCAPE_CHAR_CTRL_OTHER ELSE ESCAPE_CHAR_NUL]

\* a return from inside the CSI case, the state already back to NONE
ParseReturn(buf, str, tok) ==
    [state |-> TERMINAL_ESCAPE_MATCH_NONE, buf |-> buf, str |-> str,
     tok |-> tok]

\* lines 125-133
ParseNone(buf, str, input) ==
    IF input = CH_ESC
      THEN ParseBreak(TERMINAL_ESCAPE_MATCH_ESC, [buf EXCEPT ![0] = 0],
                      <<CH_ESC>>)
      ELSE ParseReturn(buf, str, input)

\* lines 134-157
ParseEsc(buf, str, input) ==
    ParseBreak(
        CASE input = CH_LBRACKET -> TERMINAL_ESCAPE_MATCH_ESC_CSI
          [] input = CH_RBRACKET -> TERMINAL_ESCAPE_MATCH_ESC_OSC
          [] input = CH_P -> TERMINAL_ESCAPE_MATCH_ESC_DCS
          [] input = CH_CARET -> TERMINAL_ESCAPE_MATCH_ESC_PM
          [] input = CH_UNDERSCORE -> TERMINAL_ESCAPE_MATCH_ESC_APC
          [] input = CH_O -> TERMINAL_ESCAPE_MATCH_ESC_SS3
          [] OTHER -> TERMINAL_ESCAPE_MATCH_NONE,
        buf, str)

\* a faulty variant of ParseString: the payload is not counted
ParseString_NoCap(state, buf, str, input) ==
    IF input = CH_BEL
      THEN ParseBreak(TERMINAL_ESCAPE_MATCH_NONE, buf, str)
      ELSE IF input = CH_ESC
      THEN ParseBreak(TERMINAL_ESCAPE_MATCH_ESC_STRING_WAIT_ST, buf, str)
      ELSE ParseBreak(state, buf, str)

\* lines 158-174: OSC, DCS, PM, APC
ParseString(state, buf, str, input) ==
    IF input = CH_BEL
      THEN ParseBreak(TERMINAL_ESCAPE_MATCH_NONE, buf, str)
      ELSE IF input = CH_ESC
      THEN ParseBreak(TERMINAL_ESCAPE_MATCH_ESC_STRING_WAIT_ST, buf, str)
      ELSE LET b == [buf EXCEPT ![0] = @ + 1]
           IN IF b[0] >= TERMINAL_ESCAPE_CHAR_PARSE_BUF_SIZE - 1
                THEN ParseReset(b, str)
                ELSE ParseBreak(state, b, str)

\* lines 175-182
ParseSs3(buf, str, input) ==
    IF is_csi_final(input)
      THEN ParseBreak(TERMINAL_ESCAPE_MATCH_NONE, buf, str)
      ELSE ParseReset(buf, str)

\* a faulty variant of CsiDecode: the finals C and D are taken for each other
CsiDecode_Swapped(b) ==
    IF b[0] = 2 /\ b[2] = CH_TILDE
      THEN CASE b[1] = CH_1 -> ESCAPE_CHAR_CTRL_HOME
             [] b[1] = CH_3 -> ESCAPE_CHAR_CTRL_DELETE
             [] b[1] = CH_4 -> ESCAPE_CHAR_CTRL_END
             [] OTHER -> ESCAPE_CHAR_CTRL_OTHER
      ELSE IF b[0] = 1
      THEN CASE b[1] = CH_A -> ESCAPE_CHAR_CTRL_UP
             [] b[1] = CH_B -> ESCAPE_CHAR_CTRL_DOWN
             [] b[1] = CH_D -> ESCAPE_CHAR_CTRL_RIGHT
             [] b[1] = CH_C -> ESCAPE_CHAR_CTRL_LEFT
             [] b[1] = CH_F -> ESCAPE_CHAR_CTRL_END
             [] b[1] = CH_H -> ESCAPE_CHAR_CTRL_HOME
             [] OTHER -> ESCAPE_CHAR_CTRL_OTHER
      ELSE ESCAPE_CHAR_CTRL_OTHER

\* lines 193-221: the stored bytes of a completed CSI sequence are decoded
CsiDecode(b) ==
    IF b[0] = 2 /\ b[2] = CH_TILDE
      THEN CASE b[1] = CH_1 -> ESCAPE_CHAR_CTRL_HOME
             [] b[1] = CH_3 -> ESCAPE_CHAR_CTRL_DELETE
             [] b[1] = CH_4 -> ESCAPE_CHAR_CTRL_END
             [] OTHER -> ESCAPE_CHAR_CTRL_OTHER
      ELSE IF b[0] = 1
      THEN CASE b[1] = CH_A -> ESCAPE_CHAR_CTRL_UP
             [] b[1] = CH_B -> ESCAPE_CHAR_CTRL_DOWN
             [] b[1] = CH_C -> ESCAPE_CHAR_CTRL_RIGHT
             [] b[1] = CH_D -> ESCAPE_CHAR_CTRL_LEFT
             [] b[1] = CH_F -> ESCAPE_CHAR_CTRL_END
             [] b[1] = CH_H -> ESCAPE_CHAR_CTRL_HOME
             [] OTHER -> ESCAPE_CHAR_CTRL_OTHER
      ELSE ESCAPE_CHAR_CTRL_OTHER

\* a faulty variant of ParseCsi: the byte is stored without the test of the
\* count
ParseCsi_NoBound(buf, str, input) ==
    LET b == [buf EXCEPT ![buf[0] + 1] = input, ![0] = @ + 1]
    IN IF is_csi_final(input)
         THEN ParseReturn(b, str, CsiDecode(b))
         ELSE IF ~is_middle_byte(input) /\ ~is_param_byte(input)
         THEN ParseReset(b, str)
         ELSE ParseBreak(TERMINAL_ESCAPE_MATCH_ESC_CSI, b, str)

\* lines 183-228
ParseCsi(buf, str, input) ==
    IF buf[0] < TERMINAL_ESCAPE_CHAR_PARSE_BUF_SIZE - 1
      THEN LET b == [buf EXCEPT ![buf[0] + 1] = input, ![0] = @ + 1]
           IN IF is_csi_final(input)
                THEN ParseReturn(b, str, CsiDecode(b))
                ELSE IF ~is_middle_byte(input) /\ ~is_param_byte(input)
                THEN ParseReset(b, str)
                ELSE ParseBreak(TERMINAL_ESCAPE_MATCH_ESC_CSI, b, str)
      ELSE ParseReset(buf, str)

\* lines 229-235
ParseWaitSt(buf, str, input) ==
    IF input = CH_BACKSLASH
      THEN ParseBreak(TERMINAL_ESCAPE_MATCH_NONE, buf, str)
      ELSE ParseReset(buf, str)

\* lines 121-244: one call; the result holds the new statics and the token
ehshell_escape_char_parse(state, buf, str, input) ==
    LET str1 == IF state # TERMINAL_ESCAPE_MATCH_NONE
                  THEN Append(str, input) ELSE str
    IN CASE state = TERMINAL_ESCAPE_MATCH_NONE -> ParseNone(buf, str1, input)
         [] state = TERMINAL_ESCAPE_MATCH_ESC -> ParseEsc(buf, str1, input)
         [] state \in {TERMINAL_ESCAPE_MATCH_ESC_OSC,
                       TERMINAL_ESCAPE_MATCH_ESC_DCS,
                       TERMINAL_ESCAPE_MATCH_ESC_PM,
                       TERMINAL_ESCAPE_MATCH_ESC_APC} ->
              ParseString(state, buf, str1, input)
         [] state = TERMINAL_ESCAPE_MATCH_ESC_SS3 -> ParseSs3(buf, str1, input)
         [] state = TERMINAL_ESCAPE_MATCH_ESC_CSI -> ParseCsi(buf, str1, input)
         [] state = TERMINAL_ESCAPE_MATCH_ESC_STRING_WAIT_ST ->
              ParseWaitSt(buf, str1, input)

(***************************************************************************)
(* Line editor and record sink: terminal_display_record_process_data       *)
(***************************************************************************)
\* std::isprint in the "C" locale
isprint(ch) == ch >= 32 /\ ch <= 126

\* the text ">>>  "
Prompt == <<CH_GREATER, CH_GREATER, CH_GREATER, CH_SPACE, CH_SPACE>>

\* a time stamp string as written to a stream: "" writes nothing, the k-th
\* time stamp taken is written as the item -k
TimeStr(ts) == IF ts = 0 THEN <<>> ELSE <<0 - ts>>

RECURSIVE CString(_)
\* (const char*)v.data(): the bytes before the first NUL
CString(v) ==
    IF v = <<>> \/ Head(v) = 0 THEN <<>> ELSE <<Head(v)>> \o CString(Tail(v))

\* line 277: s_linebuf.erase(begin() + pos - 1)
EraseAt(v, pos) == SubSeq(v, 1, pos - 1) \o SubSeq(v, pos + 1, Len(v))

\* line 266: s_linebuf.insert(begin() + pos, ch)
InsertAt(v, pos, ch) == SubSeq(v, 1, pos) \o <<ch>> \o SubSeq(v, pos + 1, Len(v))

\* the statics and the output streams as one record; quit is the local
\* is_quit_sigint of the batch being processed
TermState ==
    [state |-> s_escape_char_match_state,
     buf |-> s_escape_char_parse_buf,
     str |-> s_escape_char_parse_buf_str,
     linebuf |-> s_linebuf,
     pos |-> s_linebuf_insert_pos,
     new_line |-> s_is_new_line,
     time_str |-> s_linebuf_current_time_str,
     tsCount |-> h_tsCount,
     echo |-> h_echo,
     log |-> h_log,
     fed |-> h_fed,
     trace |-> h_trace,
     quitCalls |-> h_quitCalls,
     quit |-> FALSE]

\* the state terminal_display_record_start() leaves (lines 369-377)
TermStart ==
    [state |-> TERMINAL_ESCAPE_MATCH_NONE,
     buf |-> [i \in 0 .. TERMINAL_ESCAPE_CHAR_PARSE_BUF_SIZE - 1 |-> 0],
     str |-> <<>>,
     linebuf |-> <<>>,
     pos |-> 0,
     new_line |-> TRUE,
     time_str |-> 0,
     tsCount |-> 0,
     echo |-> <<>>,
     log |-> <<>>,
     fed |-> <<>>,
     trace |-> <<>>,
     quitCalls |-> <<>>,
     quit |-> FALSE]

\* a faulty variant of EditPrintable: the byte is always inserted
EditPrintable_Insert(t, ch) ==
    LET t1 == IF t.new_line
                THEN [t EXCEPT !.new_line = FALSE,
                               !.tsCount = @ + 1,
                               !.time_str = t.tsCount + 1,
                               !.echo = @ \o TimeStr(t.tsCount + 1) \o Prompt]
                ELSE t
    IN [t1 EXCEPT !.echo = Append(@, ch),
                  !.linebuf = InsertAt(t.linebuf, t.pos, ch),
                  !.pos = t.pos + 1]

\* lines 255-270: a printable or extended byte
EditPrintable(t, ch) ==
    LET t1 == IF t.new_line
                THEN [t EXCEPT !.new_line = FALSE,
                               !.tsCount = @ + 1,
                               !.time_str = t.tsCount + 1,
                               !.echo = @ \o TimeStr(t.tsCount + 1) \o Prompt]
                ELSE t
    IN [t1 EXCEPT !.echo = Append(@, ch),
                  !.linebuf = IF t.pos < Len(t.linebuf)
                                THEN [t.linebuf EXCEPT ![t.pos + 1] = ch]
                                ELSE InsertAt(t.linebuf, t.pos, ch),
                  !.pos = t.pos + 1]

\* a faulty variant of EditBackspace: the cursor is not tested
EditBackspace_Unguarded(t) ==
    [t EXCEPT !.linebuf = EraseAt(t.linebuf, t.pos),
              !.pos = t.pos - 1,
              !.echo = @ \o <<CH_BS, CH_SPACE, CH_BS>>]

\* a faulty variant of EditSigint: the callback is called at once
EditSigint_Call(t) ==
    [t EXCEPT !.quit = TRUE, !.quitCalls = Append(@, Len(t.fed))]

\* lines 272-274
EditSigint(t) == [t EXCEPT !.quit = TRUE]

\* lines 275-281
EditBackspace(t) ==
    IF t.pos > 0
      THEN [t EXCEPT !.linebuf = EraseAt(t.linebuf, t.pos),
                     !.pos = t.pos - 1,
                     !.echo = @ \o <<CH_BS, CH_SPACE, CH_BS>>]
      ELSE t

\* a faulty variant of EditLineFeed: the record ends at the cursor
EditLineFeed_ToCursor(t) ==
    [t EXCEPT !.echo = Append(@, CH_LF),
              !.log = Append(@, TimeStr(t.time_str) \o Prompt
                                \o SubSeq(t.linebuf, 1, t.pos) \o <<CH_LF>>),
              !.pos = 0,
              !.new_line = TRUE,
              !.linebuf = <<>>]

\* lines 285-292
EditLineFeed(t) ==
    [t EXCEPT !.echo = Append(@, CH_LF),
              !.log = Append(@, TimeStr(t.time_str) \o Prompt
                                \o CString(Append(t.linebuf, 0)) \o <<CH_LF>>),
              !.pos = 0,
              !.new_line = TRUE,
              !.linebuf = <<>>]

\* a faulty variant of EditCarriageReturn: the line buffer is cleared
EditCarriageReturn_Clear(t) ==
    [t EXCEPT !.echo = @ \o <<CH_CR>> \o TimeStr(t.time_str) \o Prompt,
              !.pos = 0,
              !.linebuf = <<>>]

\* lines 293-296
EditCarriageReturn(t) ==
    [t EXCEPT !.echo = @ \o <<CH_CR>> \o TimeStr(t.time_str) \o Prompt,
              !.pos = 0]

\* a faulty variant of EditDeleteLine: the cursor stays where it was
EditDeleteLine_KeepCursor(t) ==
    [t EXCEPT !.echo = @ \o <<ESCAPE_CHAR_CTRL_U_DEL_LINE, CH_CR>>,
              !.linebuf = <<>>]

\* lines 297-301
EditDeleteLine(t) ==
    [t EXCEPT !.echo = @ \o <<ESCAPE_CHAR_CTRL_U_DEL_LINE, CH_CR>>,
              !.pos = 0,
              !.linebuf = <<>>]

\* lines 302-307
EditLeft(t) ==
    IF t.pos > 0
      THEN [t EXCEPT !.pos = t.pos - 1,
                     !.echo = @ \o <<CH_ESC, CH_LBRACKET, CH_D>>]
      ELSE t

\* a faulty variant of EditRight: the cursor is not tested
EditRight_Unbounded(t) ==
    [t EXCEPT !.pos = t.pos + 1,
              !.echo = @ \o <<CH_ESC, CH_LBRACKET, CH_C>>]

\* lines 308-313
EditRight(t) ==
    IF t.pos < Len(t.linebuf)
      THEN [t EXCEPT !.pos = t.pos + 1,
                     !.echo = @ \o <<CH_ESC, CH_LBRACKET, CH_C>>]
      ELSE t

\* a faulty variant of EditToken: Home and End move the cursor and Delete
\* removes the character under it
EditToken_Navigate(t, ch) ==
    IF ch <= 255 /\ (isprint(ch) \/ ch >= ESCAPE_CHAR_CTRL_UTF8_START)
      THEN EditPrintable(t, ch)
      ELSE CASE ch = ESCAPE_CHAR_CTRL_C_SIGINT -> EditSigint(t)
             [] ch = ESCAPE_CHAR_CTRL_BACKSPACE_0 -> EditBackspace(t)
             [] ch = ESCAPE_CHAR_CTRL_TAB -> [t EXCEPT !.echo = Append(@, CH_TAB)]
             [] ch = ESCAPE_CHAR_CTRL_J_LF -> EditLineFeed(t)
             [] ch = ESCAPE_CHAR_CTRL_M_CR -> EditCarriageReturn(t)
             [] ch = ESCAPE_CHAR_CTRL_U_DEL_LINE -> EditDeleteLine(t)
             [] ch = ESCAPE_CHAR_CTRL_LEFT -> EditLeft(t)
             [] ch = ESCAPE_CHAR_CTRL_RIGHT -> EditRight(t)
             [] ch = ESCAPE_CHAR_CTRL_HOME -> [t EXCEPT !.pos = 0]
             [] ch = ESCAPE_CHAR_CTRL_END -> [t EXCEPT !.pos = Len(t.linebuf)]
             [] ch = ESCAPE_CHAR_CTRL_DELETE ->
                  [t EXCEPT !.linebuf = EraseAt(t.linebuf, t.pos + 1)]
             [] ch = ESCAPE_CHAR_CTRL_OTHER -> [t EXCEPT !.echo = @ \o t.str]
             [] OTHER -> t

\* lines 255-319: the effect of one token on the editor
EditToken(t, ch) ==
    IF ch <= 255 /\ (isprint(ch) \/ ch >= ESCAPE_CHAR_CTRL_UTF8_START)
      THEN EditPrintable(t, ch)
      ELSE CASE ch = ESCAPE_CHAR_CTRL_C_SIGINT -> EditSigint(t)
             [] ch = ESCAPE_CHAR_CTRL_BACKSPACE_0 -> EditBackspace(t)
             [] ch = ESCAPE_CHAR_CTRL_TAB -> [t EXCEPT !.echo = Append(@, CH_TAB)]
             [] ch = ESCAPE_CHAR_CTRL_J_LF -> EditLineFeed(t)
             [] ch = ESCAPE_CHAR_CTRL_M_CR -> EditCarriageReturn(t)
             [] ch = ESCAPE_CHAR_CTRL_U_DEL_LINE -> EditDeleteLine(t)
             [] ch = ESCAPE_CHAR_CTRL_LEFT -> EditLeft(t)
             [] ch = ESCAPE_CHAR_CTRL_RIGHT -> EditRight(t)
             [] ch = ESCAPE_CHAR_CTRL_OTHER -> [t EXCEPT !.echo = @ \o t.str]
             [] OTHER -> t

\* the entry h_trace keeps for a byte that yields a token: where the byte is
\* in the stream, the classifier state and the editor before it, the token,
\* the raw text, and the editor and the output after it
TraceEntry(t, c, tok, u) ==
    [at |-> Len(t.fed) + 1,
     byte |-> c,
     before |-> t.state,
     after |-> u.state,
     tok |-> tok,
     raw |-> u.str,
     linebuf0 |-> t.linebuf,
     pos0 |-> t.pos,
     time0 |-> t.time_str,
     new_line0 |-> t.new_line,
     linebuf |-> u.linebuf,
     pos |-> u.pos,
     time |-> u.time_str,
     new_line |-> u.new_line,
     echoed |-> SubSeq(u.echo, Len(t.echo) + 1, Len(u.echo)),
     logged |-> SubSeq(u.log, Len(t.log) + 1, Len(u.log))]

\* the histories of one iteration: the byte joins the stream, and when it
\* yields a token (not ESCAPE_CHAR_NUL, which a byte inside an unfinished
\* sequence yields) the trace gets an entry
Traced(t, c, tok, u) ==
    [u EXCEPT !.fed = Append(@, c),
              !.trace = IF tok = ESCAPE_CHAR_NUL THEN @
                        ELSE Append(@, TraceEntry(t, c, tok, u))]

\* lines 254-319: one iteration of the loop: classify the byte, apply the
\* token; p is the classifier's result
ProcessByte(t, c) ==
    CHOOSE r \in
      {Traced(t, c, p.tok,
              EditToken([t EXCEPT !.state = p.state, !.buf = p.buf,
                                  !.str = p.str], p.tok)) :
         p \in {ehshell_escape_char_parse(t.state, t.buf, t.str, c)}} : TRUE

RECURSIVE ProcessBytes(_, _)
\* lines 253-320: the loop over the bytes of a batch, in order.  The batch is
\* halved rather than peeled, and the state u after the first half is a
\* computed value when the second half starts from it
ProcessBytes(t, bytes) ==
    IF bytes = <<>> THEN t
    ELSE IF Len(bytes) = 1 THEN ProcessByte(t, bytes[1])
    ELSE LET h == Len(bytes) \div 2
         IN CHOOSE r \in {ProcessBytes(u, SubSeq(bytes, h + 1, Len(bytes))) :
                            u \in {ProcessBytes(t, SubSeq(bytes, 1, h))}} : TRUE

\* lines 322-323, with a quit-signal callback registered (main.cpp line 158)
QuitSignal(t) ==
    IF t.quit THEN [t EXCEPT !.quitCalls = Append(@, Len(t.fed))] ELSE t

\* a faulty variant of terminal_display_record_process_data: the classifier
\* starts every batch afresh
terminal_display_record_process_data_Restart(t, bytes) ==
    CHOOSE r \in
      {QuitSignal(u) :
         u \in {ProcessBytes([t EXCEPT !.quit = FALSE,
                                       !.state = TERMINAL_ESCAPE_MATCH_NONE],
                             bytes)}} : TRUE

\* lines 248-324: the whole call on one batch
terminal_display_record_process_data(t, bytes) ==
    CHOOSE r \in
      {QuitSignal(u) :
         u \in {ProcessBytes([t EXCEPT !.quit = FALSE], bytes)}} : TRUE

\* the target sends the bytes of one key; they wait in the remote buffer
Target_Send(key) ==
    /\ nKeys < MaxKeys
    /\ nKeys' = nKeys + 1
    /\ remoteOut' = remoteOut \o key
    /\ UNCHANGED <<s_escape_char_match_state, s_escape_char_parse_buf,
                   s_escape_char_parse_buf_str, s_linebuf,
                   s_linebuf_insert_pos, s_is_new_line,
                   s_linebuf_current_time_str, h_fed, h_trace, h_echo, h_log,
                   h_tsCount, h_quitCalls, h_split>>
    /\ UNCHANGED <<startVars, relayVars, sinkVars>>

\* line 348: terminal_display_record_process_data(data) on the statics
ApplyBatch(batch) ==
    \E t \in {TermState} :
       \E u \in {terminal_display_record_process_data(t, batch)} :
          /\ s_escape_char_match_state' = u.state
          /\ s_escape_char_parse_buf' = u.buf
          /\ s_escape_char_parse_buf_str' = u.str
          /\ s_linebuf' = u.linebuf
          /\ s_linebuf_insert_pos' = u.pos
          /\ s_is_new_line' = u.new_line
          /\ s_linebuf_current_time_str' = u.time_str
          /\ h_tsCount' = u.tsCount
          /\ h_echo' = u.echo
          /\ h_log' = u.log
          /\ h_quitCalls' = u.quitCalls
          /\ h_fed' = u.fed
          /\ h_trace' = u.trace
          /\ h_split' = (h_split \/ u.state # TERMINAL_ESCAPE_MATCH_NONE)

\* the first n waiting bytes are read by the relay, handed to
\* terminal_display_record_write and processed by the sink thread as one batch
\* (terminal_display_record_thread lines 347-349)
Sink_ProcessBatch(n) ==
    /\ n \in 1 .. Len(remoteOut)
    /\ ApplyBatch(SubSeq(remoteOut, 1, n))
    /\ remoteOut' = SubSeq(remoteOut, n + 1, Len(remoteOut))
    /\ UNCHANGED nKeys
    /\ UNCHANGED <<startVars, relayVars, sinkVars>>

\* the key of a letter
KeyLetter == <<97>>
\* the key of a final byte the decoding table does not hold
KeyFinal == <<109>>

\* the keys of the editing session: text, the control bytes of the editor,
\* a lone ESC, a lone CSI introducer (a control byte after it makes the
\* classifier reset) and the two arrows
EditKeys ==
    {KeyLetter, <<ESCAPE_CHAR_CTRL_UTF8_START>>,
     <<ESCAPE_CHAR_CTRL_BACKSPACE_0>>, <<ESCAPE_CHAR_CTRL_BACKSPACE_1>>,
     <<ESCAPE_CHAR_CTRL_TAB>>, <<ESCAPE_CHAR_CTRL_J_LF>>,
     <<ESCAPE_CHAR_CTRL_M_CR>>, <<ESCAPE_CHAR_CTRL_U_DEL_LINE>>,
     <<ESCAPE_CHAR_CTRL_C_SIGINT>>, <<CH_ESC>>, <<CH_ESC, CH_LBRACKET>>,
     <<CH_ESC, CH_LBRACKET, CH_D>>, <<CH_ESC, CH_LBRACKET, CH_C>>}

\* the longest run of parameter bytes after which a final byte still fits
\* the parse buffer
LongCsiParams == TERMINAL_ESCAPE_CHAR_PARSE_BUF_SIZE - 2

\* the keys of the CSI session: the introducer, the final and parameter bytes
\* of the decoding table, two bytes outside it, and an introducer followed by
\* LongCsiParams parameter bytes
CsiKeys ==
    {<<CH_ESC, CH_LBRACKET>>,
     <<CH_A>>, <<CH_B>>, <<CH_C>>, <<CH_D>>, <<CH_F>>, <<CH_H>>,
     <<CH_1>>, <<CH_3>>, <<CH_4>>, <<CH_TILDE>>,
     <<CH_SEMICOLON>>, KeyFinal,
     <<CH_ESC, CH_LBRACKET>> \o [j \in 1 .. LongCsiParams |-> CH_1]}

\* the state terminal_display_record_start() leaves, before any byte arrives
InitTerm ==
    /\ StaticStart
    /\ StaticRelay
    /\ StaticTerm
    /\ StaticSink
    /\ arg_tx = 0
    /\ arg_rx = 0
    /\ arg_addr = 0
    /\ arg_range = 0

Target_SendEditKey == \E key \in EditKeys : Target_Send(key)

Target_SendCsiKey == \E key \in CsiKeys : Target_Send(key)

\* the relay reads any number of the waiting bytes
Sink_Process == \E n \in 1 .. Len(remoteOut) : Sink_ProcessBatch(n)

\* the relay reads all the waiting bytes
Sink_ProcessAll == Sink_ProcessBatch(Len(remoteOut))

NextTerm ==
    \/ Target_SendEditKey
    \/ Sink_Process

SpecTerm == InitTerm /\ [][NextTerm]_vars

NextCsi ==
    \/ Target_SendCsiKey
    \/ Sink_ProcessAll

SpecCsi == InitTerm /\ [][NextCsi]_vars

\* n bytes that neither end nor break a sequence
Filler(n) == [j \in 1 .. n |-> CH_1]

\* byte sequences that take the classifier from NONE into each of its
\* states, and to the two places where one more byte fills the parse buffer
\* (CSI: 63 bytes stored; string states: a count of 62)
ParsePrefixes ==
    {KeyLetter,
     <<CH_ESC>>,
     <<CH_ESC, CH_LBRACKET>>,
     <<CH_ESC, CH_RBRACKET>>,
     <<CH_ESC, CH_P>>,
     <<CH_ESC, CH_CARET>>,
     <<CH_ESC, CH_UNDERSCORE>>,
     <<CH_ESC, CH_O>>,
     <<CH_ESC, CH_RBRACKET, CH_ESC>>,
     <<CH_ESC, CH_LBRACKET>> \o Filler(LongCsiParams),
     <<CH_ESC, CH_LBRACKET>> \o Filler(LongCsiParams + 1),
     <<CH_ESC, CH_RBRACKET>> \o Filler(LongCsiParams)}

\* the values of a char
Bytes == 0 .. ESCAPE_CHAR_CTRL_NOSTD_START

\* the target starts with one of the prefixes
Target_SendPrefix ==
    /\ nKeys = 0
    /\ \E key \in ParsePrefixes : Target_Send(key)

\* the target sends a byte of any value
Target_SendByte ==
    /\ nKeys \in 1 .. MaxProbes
    /\ \E c \in Bytes : Target_Send(<<c>>)

\* the classifier met, in each of its states, with every byte value
NextParse ==
    \/ Target_SendPrefix
    \/ Target_SendByte
    \/ Sink_ProcessAll

SpecParse == InitTerm /\ [][NextParse]_vars

\* the relay reads one of the waiting bytes
Sink_ProcessOne == Sink_ProcessBatch(1)

\* the classifier met with every byte value in each of its states, the
\* bytes processed one at a time
NextBuf ==
    \/ Target_SendPrefix
    \/ Target_SendByte
    \/ Sink_ProcessOne

SpecBuf == InitTerm /\ [][NextBuf]_vars

\* the key of a two-letter word
KeyWord == <<98, 99>>

\* the keys of the session of one overwritten line
LineKeys ==
    {KeyWord, KeyLetter, <<ESCAPE_CHAR_CTRL_M_CR>>, <<ESCAPE_CHAR_CTRL_J_LF>>}

\* the target sends one of the keys of a line; they wait in the remote buffer
Target_SendLineKey ==
    /\ nKeys < MaxLineKeys
    /\ nKeys' = nKeys + 1
    /\ \E key \in LineKeys : remoteOut' = remoteOut \o key
    /\ UNCHANGED <<s_escape_char_match_state, s_escape_char_parse_buf,
                   s_escape_char_parse_buf_str, s_linebuf,
                   s_linebuf_insert_pos, s_is_new_line,
                   s_linebuf_current_time_str, h_fed, h_trace, h_echo, h_log,
                   h_tsCount, h_quitCalls, h_split>>
    /\ UNCHANGED <<startVars, relayVars, sinkVars>>

NextLine ==
    \/ Target_SendLineKey
    \/ Sink_Process

SpecLine == InitTerm /\ [][NextLine]_vars

\* the keys of the navigation session: a letter and the left arrow, which
\* bring the cursor inside a text; Tab; the byte 0x00; Home, End, Up, Down
\* and Delete in their CSI forms; a CSI sequence and a two-byte sequence
\* the table does not hold; a lone introducer; and an introducer followed
\* by a control byte, on which the classifier resets
NavKeys ==
    {KeyLetter,
     <<CH_ESC, CH_LBRACKET, CH_D>>,
     <<ESCAPE_CHAR_CTRL_TAB>>,
     <<ESCAPE_CHAR_NUL>>,
     <<CH_ESC, CH_LBRACKET, CH_H>>,
     <<CH_ESC, CH_LBRACKET, CH_1, CH_TILDE>>,
     <<CH_ESC, CH_LBRACKET, CH_F>>,
     <<CH_ESC, CH_LBRACKET, CH_4, CH_TILDE>>,
     <<CH_ESC, CH_LBRACKET, CH_A>>,
     <<CH_ESC, CH_LBRACKET, CH_B>>,
     <<CH_ESC, CH_LBRACKET, CH_3, CH_TILDE>>,
     <<CH_ESC, CH_LBRACKET>> \o KeyFinal,
     <<CH_ESC, CH_SPACE>>,
     <<CH_ESC, CH_LBRACKET>>,
     <<CH_ESC, CH_LBRACKET, ESCAPE_CHAR_CTRL_BACKSPACE_0>>}

Target_SendNavKey == \E key \in NavKeys : Target_Send(key)

NextNav ==
    \/ Target_SendNavKey
    \/ Sink_Process

SpecNav == InitTerm /\ [][NextNav]_vars

\* what the target sends after the probed byte: a letter, a left arrow
FollowKeys == {KeyLetter, <<CH_ESC, CH_LBRACKET, CH_D>>}

\* the target goes on after a prefix or a probed byte
Target_SendFollow ==
    /\ nKeys >= 1
    /\ \E key \in FollowKeys : Target_Send(key)

\* the classifier met, in each of its states, with every byte value, and
\* with what it does with the bytes that come after
NextReset ==
    \/ Target_SendPrefix
    \/ Target_SendByte
    \/ Target_SendFollow
    \/ Sink_ProcessAll

SpecReset == InitTerm /\ [][NextReset]_vars

(***************************************************************************)
(* The record sink thread and the shutdown of main.cpp (lines 182-184):    *)
(* terminal_display_record_thread, terminal_display_record_stop, then      *)
(* jlink_rtt_stop                                                          *)
(***************************************************************************)
\* the state after main.cpp line 158: the relay runs with a tx channel, the
\* sink thread is at the top of its loop, the log file is open, and
\* terminal_display_record_write is the receive callback
InitSink ==
    /\ RelayStarted
    /\ arg_tx = 0
    /\ StaticTerm
    /\ tdr_rtt_rx_queue = <<>>
    /\ tdr_data = <<>>
    /\ tdr_req_stop = FALSE
    /\ tdr_thread = TRUE
    /\ tdr_cv_notified = FALSE
    /\ kpc = "lock"
    /\ xpc = "run"
    /\ log_open = TRUE
    /\ s_rx_cb = TRUE
    /\ nRecv = 0
    /\ h_written = <<>>
    /\ h_atStop = <<>>

\* what the sink thread and terminal_display_record_stop never touch
SinkFrame ==
    UNCHANGED <<startVars, relayVars, s_rx_cb, nRecv, h_written>>

\* a faulty variant of SinkThread_Lock: the stop flag is tested first
SinkThread_Lock_StopFirst ==
    /\ kpc = "lock"
    /\ IF tdr_req_stop
         THEN /\ kpc' = "done"
              /\ h_atStop' = h_written
              /\ UNCHANGED <<tdr_data, tdr_rtt_rx_queue>>
         ELSE IF tdr_rtt_rx_queue # <<>>
         THEN /\ tdr_data' = MergeQueue(tdr_data, tdr_rtt_rx_queue)
              /\ tdr_rtt_rx_queue' = <<>>
              /\ kpc' = "process_data"
              /\ UNCHANGED h_atStop
         ELSE /\ kpc' = "enter_wait"
              /\ UNCHANGED <<tdr_data, tdr_rtt_rx_queue, h_atStop>>
    /\ UNCHANGED <<tdr_req_stop, tdr_thread, tdr_cv_notified, xpc, log_open,
                   editorVars>>
    /\ SinkFrame

\* lines 331-343: under the lock, the queue is tested, then the stop flag
SinkThread_Lock ==
    /\ kpc = "lock"
    /\ IF tdr_rtt_rx_queue # <<>>
         THEN /\ tdr_data' = MergeQueue(tdr_data, tdr_rtt_rx_queue)
              /\ tdr_rtt_rx_queue' = <<>>
              /\ kpc' = "process_data"
              /\ UNCHANGED h_atStop
         ELSE IF tdr_req_stop
         THEN /\ kpc' = "done"
              /\ h_atStop' = h_written
              /\ UNCHANGED <<tdr_data, tdr_rtt_rx_queue>>
         ELSE /\ kpc' = "enter_wait"
              /\ UNCHANGED <<tdr_data, tdr_rtt_rx_queue, h_atStop>>
    /\ UNCHANGED <<tdr_req_stop, tdr_thread, tdr_cv_notified, xpc, log_open,
                   editorVars>>
    /\ SinkFrame

\* line 345: s_cv.wait(lck) releases the lock and blocks; a notification
\* sent before this point has reached nobody
SinkThread_Wait ==
    /\ kpc = "enter_wait"
    /\ kpc' = "wait"
    /\ tdr_cv_notified' = FALSE
    /\ UNCHANGED <<tdr_rtt_rx_queue, tdr_data, tdr_req_stop, tdr_thread, xpc,
                   log_open, h_atStop, editorVars>>
    /\ SinkFrame

\* line 345: the wait returns on a notification
SinkThread_Wake ==
    /\ kpc = "wait"
    /\ tdr_cv_notified
    /\ tdr_cv_notified' = FALSE
    /\ kpc' = "lock"
    /\ UNCHANGED <<tdr_rtt_rx_queue, tdr_data, tdr_req_stop, tdr_thread, xpc,
                   log_open, h_atStop, editorVars>>
    /\ SinkFrame

\* line 345: the wait returns with no notification, as the standard lets
\* condition_variable::wait do
SinkThread_SpuriousWake ==
    /\ kpc = "wait"
    /\ ~tdr_cv_notified
    /\ kpc' = "lock"
    /\ UNCHANGED <<tdr_rtt_rx_queue, tdr_data, tdr_req_stop, tdr_thread,
                   tdr_cv_notified, xpc, log_open, h_atStop, editorVars>>
    /\ SinkFrame

\* lines 347-349: the merged data is processed as one batch and cleared
SinkThread_Process ==
    /\ kpc = "process_data"
    /\ ApplyBatch(tdr_data)
    /\ tdr_data' = <<>>
    /\ kpc' = "lock"
    /\ UNCHANGED <<remoteOut, nKeys>>
    /\ UNCHANGED <<tdr_rtt_rx_queue, tdr_req_stop, tdr_thread,
                   tdr_cv_notified, xpc, log_open, h_atStop>>
    /\ SinkFrame

\* lines 385-386: if (s_thread) s_req_stop = true, stored without the lock
TdrStop_Request ==
    /\ xpc = "run"
    /\ IF tdr_thread
         THEN tdr_req_stop' = TRUE /\ xpc' = "notify"
         ELSE UNCHANGED tdr_req_stop /\ xpc' = "close"
    /\ UNCHANGED <<tdr_rtt_rx_queue, tdr_data, tdr_thread, tdr_cv_notified,
                   kpc, log_open, h_atStop, editorVars>>
    /\ SinkFrame

\* line 387: s_cv.notify_one() wakes the sink thread if it is waiting
TdrStop_Notify ==
    /\ xpc = "notify"
    /\ tdr_cv_notified' = (tdr_cv_notified \/ kpc = "wait")
    /\ xpc' = "join"
    /\ UNCHANGED <<tdr_rtt_rx_queue, tdr_data, tdr_req_stop, tdr_thread, kpc,
                   log_open, h_atStop, editorVars>>
    /\ SinkFrame

\* a faulty variant of TdrStop_Join: the thread is not waited for
TdrStop_Join_NoWait ==
    /\ xpc = "join"
    /\ tdr_thread' = FALSE
    /\ xpc' = "close"
    /\ UNCHANGED <<tdr_rtt_rx_queue, tdr_data, tdr_req_stop, tdr_cv_notified,
                   kpc, log_open, h_atStop, editorVars>>
    /\ SinkFrame

\* lines 388-390: join returns once the sink thread has ended
TdrStop_Join ==
    /\ xpc = "join"
    /\ kpc = "done"
    /\ tdr_thread' = FALSE
    /\ xpc' = "close"
    /\ UNCHANGED <<tdr_rtt_rx_queue, tdr_data, tdr_req_stop, tdr_cv_notified,
                   kpc, log_open, h_atStop, editorVars>>
    /\ SinkFrame

\* lines 392-394: the log file is closed
TdrStop_Close ==
    /\ xpc = "close"
    /\ log_open' = FALSE
    /\ xpc' = "stopped"
    /\ UNCHANGED <<tdr_rtt_rx_queue, tdr_data, tdr_req_stop, tdr_thread,
                   tdr_cv_notified, kpc, h_atStop, editorVars>>
    /\ SinkFrame

\* main.cpp line 184: jlink_rtt_stop() is called when
\* terminal_display_record_stop() has returned
Main_StopRelay ==
    /\ xpc = "stopped"
    /\ Stop_Request

\* the session after main.cpp line 158 with nothing typed: the relay polls
\* the remote and hands what it reads to the sink, whose thread processes it;
\* main stops the sink, then the relay
NextSink ==
    \/ Worker_Lock
    \/ Worker_Wake
    \/ Worker_Read
    \/ Worker_ReadClearPending
    \/ Worker_RecvCallback
    \/ Worker_Quit
    \/ Worker_Join
    \/ Watchdog_Loop
    \/ Watchdog_CheckPending
    \/ Watchdog_Sleep
    \/ SinkThread_Lock
    \/ SinkThread_Wait
    \/ SinkThread_Wake
    \/ SinkThread_SpuriousWake
    \/ SinkThread_Process
    \/ TdrStop_Request
    \/ TdrStop_Notify
    \/ TdrStop_Join
    \/ TdrStop_Close
    \/ Main_StopRelay
    \/ Stop_Join

SpecSink == InitSink /\ [][NextSink]_vars

\* the relay of the running application (receive callback registered), the
\* sink thread not scheduled, with the steps of s_mtx told apart
SpecMutex == InitSink /\ [][NextMutex]_vars

\* every thread that can take a step is scheduled in the end: the relay
\* worker, the watchdog, the sink thread and main.  What the remote answers
\* to a read is not a matter of scheduling, and a wait that returns without
\* a notification is nothing a thread can count on
SinkFairness ==
    /\ WF_vars(Worker_Lock)
    /\ WF_vars(Worker_Wake)
    /\ WF_vars(Worker_Read)
    /\ WF_vars(Worker_ReadClearPending)
    /\ WF_vars(Worker_RecvCallback)
    /\ WF_vars(Worker_Quit)
    /\ WF_vars(Worker_Join)
    /\ WF_vars(Watchdog_Loop)
    /\ WF_vars(Watchdog_CheckPending)
    /\ WF_vars(Watchdog_Sleep)
    /\ WF_vars(SinkThread_Lock)
    /\ WF_vars(SinkThread_Wait)
    /\ WF_vars(SinkThread_Wake)
    /\ WF_vars(SinkThread_Process)
    /\ WF_vars(TdrStop_Notify)
    /\ WF_vars(TdrStop_Join)
    /\ WF_vars(TdrStop_Close)
    /\ WF_vars(Main_StopRelay)
    /\ WF_vars(Stop_Join)

SpecSinkLive == SpecSink /\ SinkFairness

(***************************************************************************)
(* Properties of jlink_rtt_start (SpecStart)                               *)
(***************************************************************************)
\* the remote command cmd has been issued
Issued(cmd) == \E i \in 1 .. Len(remoteLog) : remoteLog[i] = cmd

\* the last remote command issued is cmd
IssuedLast(cmd) == remoteLog # <<>> /\ remoteLog[Len(remoteLog)] = cmd

\* jlink_rtt_start has returned v
Returned(v) == spc = "returned" /\ startRet = v

\* every validation step of jlink_rtt_start has succeeded
AllValidated ==
    /\ arg_rx >= 0
    /\ set_search_addr => Issued("EXEC")
    /\ Issued("START")
    /\ s_rtt_up_buffer_num >= 0
    /\ arg_rx <= s_rtt_up_buffer_num
    /\ s_rtt_rx_channel = arg_rx
    /\ arg_tx >= 0 => /\ s_rtt_down_buffer_num >= 0
                      /\ arg_tx <= s_rtt_down_buffer_num

\* C3: when jlink_rtt_start has returned an error, no worker and no watchdog
\* thread exists, and if RTT START had succeeded then RTT STOP is the last
\* command issued; a worker thread exists only when every validation step
\* has succeeded and start has returned 0
C3_ErrorLeavesNothing ==
    /\ Returned(-1) =>
         /\ ~s_rtt_thread
         /\ wpc = "none"
         /\ tpc = "none"
         /\ Issued("START") => IssuedLast("STOP")
    /\ s_rtt_thread =>
         /\ AllValidated
         /\ Returned(0)
         /\ ~Issued("STOP")

\* C3 case: start failed at the down-direction stage, after START and the
\* up-direction validation had succeeded, and STOP was issued
C3_Witness ==
    /\ Returned(-1)
    /\ Issued("START")
    /\ IssuedLast("STOP")
    /\ downQueries > 0
    /\ ~s_rtt_thread

\* C4: the up count is queried at most 100 times and the down count at most
\* 10 times, the down count only when tx_channel >= 0; a loop is still
\* querying only while every answer so far was negative and its budget is
\* not used up; and a start whose budget ran out without a non-negative
\* answer has returned an error
C4_DiscoveryBounded ==
    /\ upQueries <= 100
    /\ downQueries <= 10
    /\ arg_tx < 0 => downQueries = 0
    /\ spc = "up_query" => s_rtt_up_buffer_num < 0 /\ upQueries < 100
    /\ spc = "down_query" => s_rtt_down_buffer_num < 0 /\ downQueries < 10
    /\ (upQueries = 100 /\ s_rtt_up_buffer_num < 0) =>
         spc \in {"up_check", "returned"}
    /\ (downQueries = 10 /\ s_rtt_down_buffer_num < 0) =>
         spc \in {"down_check", "returned"}
    /\ (spc = "returned" /\ upQueries > 0 /\ s_rtt_up_buffer_num < 0) =>
         upQueries = 100 /\ Returned(-1)
    /\ (spc = "returned" /\ downQueries > 0 /\ s_rtt_down_buffer_num < 0) =>
         downQueries = 10 /\ Returned(-1)

\* C4 case: the up count arrived on the last of 100 queries, the down count
\* never arrived in 10 queries, and start returned an error
C4_Witness ==
    /\ spc = "returned"
    /\ upQueries = 100
    /\ s_rtt_up_buffer_num >= 0
    /\ downQueries = 10
    /\ s_rtt_down_buffer_num < 0
    /\ Returned(-1)

\* C5: a start that has returned with rx_channel above the discovered up
\* count, or with tx_channel >= 0 above the discovered down count, has
\* returned an error with RTT STOP issued last; a negative rx_channel is
\* rejected with no remote command issued at all
C5_OutOfRangeRejected ==
    spc = "returned" =>
      /\ arg_rx < 0 => Returned(-1) /\ remoteLog = <<>>
      /\ (s_rtt_up_buffer_num >= 0 /\ arg_rx > s_rtt_up_buffer_num) =>
           Returned(-1) /\ IssuedLast("STOP")
      /\ (arg_tx >= 0 /\ s_rtt_down_buffer_num >= 0
            /\ arg_tx > s_rtt_down_buffer_num) =>
           Returned(-1) /\ IssuedLast("STOP")

\* C5 case: rx_channel was in range, the down count was discovered, and
\* tx_channel lies above it
C5_Witness ==
    /\ spc = "returned"
    /\ arg_rx >= 0
    /\ arg_rx <= s_rtt_up_buffer_num
    /\ s_rtt_down_buffer_num >= 0
    /\ arg_tx > s_rtt_down_buffer_num
    /\ Returned(-1)
    /\ IssuedLast("STOP")

\* C34: after a start that returned 0 the armed channels are indices of
\* buffers the remote has: 0 <= rx channel < up count and, with a tx
\* channel armed, tx channel < down count
C34_ArmedChannelsValid ==
    Returned(0) =>
      /\ 0 <= s_rtt_rx_channel
      /\ s_rtt_rx_channel < s_rtt_up_buffer_num
      /\ s_rtt_tx_channel >= 0 => s_rtt_tx_channel < s_rtt_down_buffer_num

(***************************************************************************)
(* Properties of the transmit path (SpecRelay)                             *)
(***************************************************************************)
\* a is a prefix of b
IsPrefix(a, b) == Len(a) <= Len(b) /\ a = SubSeq(b, 1, Len(a))

\* C1: the bytes consumed by successful remote writes are a prefix of the
\* bytes of all accepted chunks in call order, and what is not consumed yet
\* is exactly what waits, in order, in the worker's buffer followed by the
\* queue: nothing is lost, repeated or reordered
C1_TransmitOrderPreserved ==
    /\ IsPrefix(h_consumed, h_accepted)
    /\ h_consumed \o data \o Flatten(s_rtt_rx_queue) = h_accepted

\* C1 case: a write consumed only the first byte of the first chunk, and the
\* second chunk was enqueued before the next attempt
C1_Witness ==
    /\ h_consumed = SubSeq(TxText(0, 2), 1, 1)
    /\ data = SubSeq(TxText(0, 2), 2, 2)
    /\ s_rtt_rx_queue = <<TxText(1, 2)>>
    /\ wpc = "lock"

\* C2: a call of jlink_rtt_transmit with no tx channel armed returns -1 and
\* leaves the queue as it was; any other call appends its chunk as the last
\* element of the queue, returns the chunk's length, and a worker waiting on
\* the condition variable is notified
C2_TransmitContract ==
    [][nTransmit' # nTransmit =>
         IF s_rtt_tx_channel < 0
           THEN /\ txRet' = -1
                /\ s_rtt_rx_queue' = s_rtt_rx_queue
           ELSE \E chunk \in TxChunks(nTransmit) :
                  /\ s_rtt_rx_queue' = Append(s_rtt_rx_queue, chunk)
                  /\ txRet' = Len(chunk)
                  /\ wpc = "wait" => cv_notified']_vars

\* C2 case: with no tx channel armed, a call was rejected and nothing was
\* ever queued
C2_Witness ==
    /\ s_rtt_tx_channel < 0
    /\ nTransmit > 0
    /\ txRet = -1
    /\ s_rtt_rx_queue = <<>>
    /\ h_accepted = <<>>

\* the positions of rtt_thread between the top of its loop and the remote
\* write of the same iteration (lines 128-151)
WriteSteps == {"process_data", "store_sent", "store_active", "write"}

\* the positions of rtt_thread from the remote read to the end of the same
\* iteration (lines 153-171)
ReadSteps ==
    {"process_read", "read_check", "clear_active", "clear_sent", "recv_cb"}

\* C31: an iteration of rtt_thread that finds the queue non-empty or bytes
\* left over merges every queued chunk behind the left-over bytes, empties
\* the queue and goes to the remote write; it makes one write and is back
\* at the top of the loop without a remote read; and an iteration goes to
\* the remote read only when it found the queue and the left-over buffer
\* empty and the stop flag clear
C31_WriteBeforeRead ==
    [][/\ (wpc = "lock" /\ (s_rtt_rx_queue # <<>> \/ data # <<>>)
          /\ wpc' # wpc) =>
            /\ wpc' = "process_data"
            /\ data' = data \o Flatten(s_rtt_rx_queue)
            /\ s_rtt_rx_queue' = <<>>
       /\ (wpc \in WriteSteps /\ wpc' # wpc) =>
            /\ wpc' \in WriteSteps \cup {"lock"}
            /\ wpc = "write" <=> wpc' = "lock"
       /\ (wpc' = "process_read" /\ wpc # wpc') =>
            /\ wpc = "lock"
            /\ s_rtt_rx_queue = <<>>
            /\ data = <<>>
            /\ ~s_req_stop
       /\ h_consumed' # h_consumed => wpc = "write"
       /\ (wpc \in ReadSteps /\ wpc' # wpc) =>
            wpc' \in ReadSteps \cup {"lock"}]_vars

\* C31 case: a read was due, and the worker found a partial write's
\* left-over and a newly queued chunk, merged them and went to the write
C31_Witness ==
    /\ wpc = "process_data"
    /\ read_state = "TRY_READ"
    /\ s_rtt_rx_queue = <<>>
    /\ h_consumed # <<>>
    /\ Len(h_consumed) < MaxChunkLen
    /\ Len(data) > MaxChunkLen
    /\ h_consumed \o data = h_accepted

\* C32: with an error callback registered, a step in which a remote write
\* or read answers a negative value calls the callback once and takes
\* rtt_thread back to the top of its loop; after a negative write the
\* left-over buffer and the queue are what they were and no byte counts as
\* written; the callback is called for nothing else in this session; and
\* the thread leaves its loop only on a stop request
C32_FaultsAreNotFatal ==
    /\ [][/\ nFault' # nFault =>
               /\ wpc \in {"write", "process_read"}
               /\ nFault' = nFault + 1
               /\ s_err_cb => h_ioErrCalls' = h_ioErrCalls + 1
               /\ wpc' = "lock"
               /\ UNCHANGED <<data, s_rtt_rx_queue, h_consumed, s_req_stop>>
          /\ h_ioErrCalls' # h_ioErrCalls => nFault' # nFault]_vars
    /\ [](s_err_cb => h_ioErrCalls = nFault)
    /\ [](wpc \in {"quit", "join", "done"} => s_req_stop)

\* C32 case: a remote call has failed, the callback was called once, the
\* worker is at the top of its loop with bytes still to write, none of them
\* written so far, and no stop was requested
C32_Witness ==
    /\ nFault = MaxFaults
    /\ h_ioErrCalls = MaxFaults
    /\ wpc = "lock"
    /\ mpc = "run"
    /\ data = h_accepted
    /\ Len(data) = MaxTransmits * MaxChunkLen
    /\ h_consumed = <<>>

\* the positions of rtt_thread at which it holds s_mtx
LockedSteps == {"locked", "woken"}

\* C33: rtt_thread holds s_mtx only in the locked section at the top of its
\* loop and between the end of a wait and the end of that iteration, never
\* at a remote write, a remote read, the receive callback or the error
\* callback (which runs inside the write and read steps); its next step
\* after it has the mutex gives the mutex up; so a caller of
\* jlink_rtt_transmit() that does not find the mutex free waits for one
\* step of the worker, and with the mutex free it can lock
C33_ProducersNeverBlock ==
    /\ [](s_mtx = "worker" <=> wpc \in LockedSteps)
    /\ [][(s_mtx = "worker" /\ wpc' # wpc) => s_mtx' = "free"]_vars
    /\ [][(nFault' # nFault \/ h_consumed' # h_consumed \/ nRecv' # nRecv
            \/ h_ioErrCalls' # h_ioErrCalls \/ wpc \in WriteSteps \cup ReadSteps)
          => (s_mtx # "worker" /\ s_mtx' # "worker")]_vars
    /\ []((mpc = "run" /\ nTransmit < MaxTransmits /\ s_mtx # "worker")
            => (s_mtx = "main" \/ ENABLED Producer_Acquire))

\* C33 case: the caller of jlink_rtt_transmit() holds the mutex while
\* rtt_thread is at the remote write with bytes to write
C33_Witness ==
    /\ s_mtx = "main"
    /\ wpc = "write"
    /\ data # <<>>
    /\ nTransmit < MaxTransmits

\* C19: rtt_thread is past its loop only with the stop flag set and with
\* both the transmit queue and its left-over buffer empty; and once
\* jlink_rtt_stop() has set the flag, it returns in the end
C19_RelayStopDrains ==
    /\ [](wpc \in {"quit", "join", "done"} =>
            /\ s_req_stop
            /\ s_rtt_rx_queue = <<>>
            /\ data = <<>>
            /\ h_consumed = h_accepted)
    /\ (mpc = "join") ~> (mpc = "stopped" /\ wpc = "done")

\* C19 case: the stop was requested while a partial write had left bytes
\* over and a further chunk was queued, and jlink_rtt_stop() returned with
\* all of them written
C19_Witness ==
    /\ mpc = "stopped"
    /\ wpc = "done"
    /\ Len(h_consumed) = MaxTransmits * MaxChunkLen
    /\ h_consumed = h_accepted

(***************************************************************************)
(* Properties of the Ctrl+C watchdog (SpecWatchdog)                        *)
(***************************************************************************)
\* the three atomics hold an armed interrupt
Armed ==
    /\ s_ctrl_c_pending
    /\ s_ctrl_c_timeout_active
    /\ s_ctrl_c_sent_time # 0

\* C8: for an interrupt that was answered (data read from the remote less
\* than 200 ms after its sent time, while pending) the error callback is
\* never invoked, and once the worker is past its clearing stores the
\* interrupt is no longer pending
C8_AnsweredNeverFires ==
    /\ \A g \in h_answered : h_fired[g] = 0
    /\ \A g \in h_answered :
         (h_gen = g /\ wpc = "lock") => ~s_ctrl_c_pending

\* C9: the callback is invoked at most once per interrupt, and an interrupt
\* that is armed, has seen no data read and has not fired stays armed, so
\* that its timeout can still fire
C9_TimeoutFiresOnce ==
    /\ \A g \in 1 .. h_gen : h_fired[g] <= 1
    /\ h_live # 0 => Armed

\* C20: rtt_thread arms the watchdog (stores pending := true, and then the
\* time stamp) only for a merged buffer that is exactly the one byte 0x03
\* while no data was seen during the CTRL_C_ISOLATION_MS before it or none
\* was ever seen; the time stamp stored is the current time; and a buffer
\* for which that holds does arm it
C20_IsolatedCtrlCOnly ==
    [][/\ (h_gen' # h_gen \/ (s_ctrl_c_pending' /\ ~s_ctrl_c_pending)) =>
            /\ wpc = "process_data"
            /\ Len(data) = 1
            /\ data[1] = CTRL_C_CHAR
            /\ \/ s_last_data_time = 0
               \/ ElapsedMs(clock, s_last_data_time) >= CTRL_C_ISOLATION_MS
            /\ s_ctrl_c_pending'
            /\ wpc' = "store_sent"
       /\ (wpc = "process_data" /\ wpc' = "write") =>
            \/ data # <<CTRL_C_CHAR>>
            \/ /\ s_last_data_time # 0
               /\ ElapsedMs(clock, s_last_data_time) < CTRL_C_ISOLATION_MS
       /\ (s_ctrl_c_sent_time' # s_ctrl_c_sent_time /\ s_ctrl_c_sent_time' # 0) =>
            /\ wpc = "store_sent"
            /\ s_ctrl_c_sent_time' = clock]_vars

\* C20 case: a lone Ctrl+C is detected as isolated although other data was
\* written before it, the isolation window having passed since
C20_Witness ==
    /\ wpc = "store_sent"
    /\ data = <<CTRL_C_CHAR>>
    /\ s_ctrl_c_pending
    /\ s_last_data_time # 0
    /\ h_consumed # <<>>
    /\ CTRL_C_CHAR \notin {h_consumed[i] : i \in 1 .. Len(h_consumed)}

\* C15: whenever pending is set, sent_time holds a time stamp.  The states
\* in which the worker stands between its store of pending (line 132) and
\* its store of the time stamp (line 133) are left out of account
C15_PendingHasSentTime ==
    (s_ctrl_c_pending /\ wpc # "store_sent") => s_ctrl_c_sent_time # 0

(***************************************************************************)
(* Properties of the classifier and the line editor (SpecTerm, SpecCsi)    *)
(***************************************************************************)
\* C6: however the stream was cut into batches, the classifier state with
\* its buffer and raw text, the line buffer, the cursor, the new-line flag,
\* the log records and the echoed text are those the whole stream yields
\* when it is processed as one batch from the start state (a time stamp
\* counts by its rank, not by the time it shows)
C6_ChunkingInvariant ==
    \E one \in {ProcessBytes(TermStart, h_fed)} :
      /\ s_escape_char_match_state = one.state
      /\ s_escape_char_parse_buf = one.buf
      /\ s_escape_char_parse_buf_str = one.str
      /\ s_linebuf = one.linebuf
      /\ s_linebuf_insert_pos = one.pos
      /\ s_is_new_line = one.new_line
      /\ s_linebuf_current_time_str = one.time_str
      /\ h_log = one.log
      /\ h_echo = one.echo

\* C6 case: a letter and a left arrow were processed, a batch ended inside
\* the arrow's sequence, and the arrow moved the cursor
C6_Witness ==
    /\ h_fed = KeyLetter \o <<CH_ESC, CH_LBRACKET, CH_D>>
    /\ h_split
    /\ s_linebuf = KeyLetter
    /\ s_linebuf_insert_pos = 0

\* the token the decoding table gives the bytes that follow ESC [
TableToken(seq) ==
    IF Len(seq) = 1
      THEN CASE seq[1] = CH_A -> ESCAPE_CHAR_CTRL_UP
             [] seq[1] = CH_B -> ESCAPE_CHAR_CTRL_DOWN
             [] seq[1] = CH_C -> ESCAPE_CHAR_CTRL_RIGHT
             [] seq[1] = CH_D -> ESCAPE_CHAR_CTRL_LEFT
             [] seq[1] = CH_F -> ESCAPE_CHAR_CTRL_END
             [] seq[1] = CH_H -> ESCAPE_CHAR_CTRL_HOME
             [] OTHER -> ESCAPE_CHAR_CTRL_OTHER
      ELSE IF seq = <<CH_1, CH_TILDE>> THEN ESCAPE_CHAR_CTRL_HOME
      ELSE IF seq = <<CH_3, CH_TILDE>> THEN ESCAPE_CHAR_CTRL_DELETE
      ELSE IF seq = <<CH_4, CH_TILDE>> THEN ESCAPE_CHAR_CTRL_END
      ELSE ESCAPE_CHAR_CTRL_OTHER

\* the trace entry e ends a CSI sequence: a final byte met in state CSI
CompletesCsi(e) ==
    e.before = TERMINAL_ESCAPE_MATCH_ESC_CSI /\ is_csi_final(e.byte)

\* the bytes after ESC [ of the sequence the entry e ends, final included
CsiBody(e) == SubSeq(e.raw, 3, Len(e.raw))

\* the entry e decodes by the table: its raw text is the stream from ESC to
\* the final byte, its token is the table's, and the generic token echoes
\* the raw text and leaves the line buffer and the cursor alone
DecodesByTable(e) ==
    /\ Len(e.raw) >= 3
    /\ e.raw = SubSeq(h_fed, e.at + 1 - Len(e.raw), e.at)
    /\ e.raw[1] = CH_ESC
    /\ e.raw[2] = CH_LBRACKET
    /\ e.tok = TableToken(CsiBody(e))
    /\ e.tok = ESCAPE_CHAR_CTRL_OTHER =>
         /\ e.echoed = e.raw
         /\ e.linebuf = e.linebuf0
         /\ e.pos = e.pos0

\* C7 as stated: every completed CSI sequence decodes by the table
C7_EveryCsiDecodes ==
    \A i \in 1 .. Len(h_trace) :
      CompletesCsi(h_trace[i]) => DecodesByTable(h_trace[i])

\* C7: a completed CSI sequence of at most 63 bytes after ESC [ (the final
\* byte included) decodes by the table; a longer one yields the reset token
\* and echoes nothing
C7_CsiDecodesWithinBuffer ==
    \A i \in 1 .. Len(h_trace) :
      CompletesCsi(h_trace[i]) =>
        IF Len(CsiBody(h_trace[i])) <= TERMINAL_ESCAPE_CHAR_PARSE_BUF_SIZE - 1
          THEN DecodesByTable(h_trace[i])
          ELSE /\ h_trace[i].tok = ESCAPE_CHAR_CTRL_RESET
               /\ h_trace[i].echoed = <<>>

\* C7 case: a sequence that just fills the buffer completed with the generic
\* token, echoed verbatim
C7_Witness ==
    \E i \in 1 .. Len(h_trace) :
      /\ CompletesCsi(h_trace[i])
      /\ Len(CsiBody(h_trace[i])) = TERMINAL_ESCAPE_CHAR_PARSE_BUF_SIZE - 1
      /\ h_trace[i].tok = ESCAPE_CHAR_CTRL_OTHER
      /\ h_trace[i].echoed = h_trace[i].raw

\* C10: a backspace token (0x08 or 0x7F) met with the cursor at 0 leaves the
\* line buffer and the cursor as they were and echoes nothing, and the
\* cursor never leaves the range 0 .. size of the buffer
C10_BackspaceAtZero ==
    /\ s_linebuf_insert_pos >= 0
    /\ s_linebuf_insert_pos <= Len(s_linebuf)
    /\ \A i \in 1 .. Len(h_trace) :
         (/\ h_trace[i].tok \in {ESCAPE_CHAR_CTRL_BACKSPACE_0,
                                 ESCAPE_CHAR_CTRL_BACKSPACE_1}
          /\ h_trace[i].pos0 = 0) =>
           /\ h_trace[i].linebuf = h_trace[i].linebuf0
           /\ h_trace[i].pos = 0
           /\ h_trace[i].echoed = <<>>
           /\ h_trace[i].logged = <<>>

\* C10 case: 0x08 arrived with the cursor at 0 and text in the line buffer
C10_Witness ==
    \E i \in 1 .. Len(h_trace) :
      /\ h_trace[i].tok = ESCAPE_CHAR_CTRL_BACKSPACE_0
      /\ h_trace[i].pos0 = 0
      /\ h_trace[i].linebuf0 # <<>>

\* C24: each of the backspace bytes 0x08 and 0x7F, met as a literal with
\* the cursor above 0, removes the character before the cursor, takes the
\* cursor back by one and echoes the erase sequence "\b \b"
C24_BackspaceErases ==
    \A i \in 1 .. Len(h_trace) :
      (/\ h_trace[i].tok \in {ESCAPE_CHAR_CTRL_BACKSPACE_0,
                              ESCAPE_CHAR_CTRL_BACKSPACE_1}
       /\ h_trace[i].pos0 > 0) =>
        /\ h_trace[i].linebuf = EraseAt(h_trace[i].linebuf0, h_trace[i].pos0)
        /\ Len(h_trace[i].linebuf) = Len(h_trace[i].linebuf0) - 1
        /\ h_trace[i].pos = h_trace[i].pos0 - 1
        /\ h_trace[i].echoed = <<CH_BS, CH_SPACE, CH_BS>>

\* the token tok is a printable or extended byte (line 255)
IsPrintable(tok) ==
    tok <= ESCAPE_CHAR_CTRL_NOSTD_START
      /\ (isprint(tok) \/ tok >= ESCAPE_CHAR_CTRL_UTF8_START)

\* the trace entries, in order, of the printable bytes that started a line
LineStarts ==
    SelectSeq(h_trace, LAMBDA e : IsPrintable(e.tok) /\ e.new_line0)

\* C26: a printable or extended byte met as a literal overwrites the
\* element at the cursor when the cursor is below the length, which stays,
\* and is appended otherwise, the length growing by one; the cursor
\* advances by one; the byte is echoed; the new-line flag is clear after
\* it; when the flag was set the line's time stamp is taken anew and echoed
\* with the prompt, otherwise the time stamp stays; and as many time stamps
\* were taken as lines were started, the k-th by the k-th line
C26_PrintableByte ==
    /\ \A i \in 1 .. Len(h_trace) :
         IsPrintable(h_trace[i].tok) =>
           /\ h_trace[i].tok = h_trace[i].byte
           /\ IF h_trace[i].pos0 < Len(h_trace[i].linebuf0)
                THEN /\ h_trace[i].linebuf =
                          [h_trace[i].linebuf0
                             EXCEPT ![h_trace[i].pos0 + 1] = h_trace[i].byte]
                     /\ Len(h_trace[i].linebuf) = Len(h_trace[i].linebuf0)
                ELSE /\ h_trace[i].linebuf =
                          Append(h_trace[i].linebuf0, h_trace[i].byte)
                     /\ Len(h_trace[i].linebuf) = Len(h_trace[i].linebuf0) + 1
           /\ h_trace[i].pos = h_trace[i].pos0 + 1
           /\ ~h_trace[i].new_line
           /\ h_trace[i].logged = <<>>
           /\ IF h_trace[i].new_line0
                THEN /\ h_trace[i].time # h_trace[i].time0
                     /\ h_trace[i].echoed =
                          TimeStr(h_trace[i].time) \o Prompt
                            \o <<h_trace[i].byte>>
                ELSE /\ h_trace[i].time = h_trace[i].time0
                     /\ h_trace[i].echoed = <<h_trace[i].byte>>
    /\ h_tsCount = Len(LineStarts)
    /\ \A k \in 1 .. Len(LineStarts) : LineStarts[k].time = k
    /\ \A i \in 1 .. Len(h_trace) :
         ~IsPrintable(h_trace[i].tok) => h_trace[i].time = h_trace[i].time0

\* C26 case: an extended byte overwrote the letter under the cursor on a
\* line already started
C26_Witness ==
    /\ \E i \in 1 .. Len(h_trace) :
         /\ h_trace[i].tok = ESCAPE_CHAR_CTRL_UTF8_START
         /\ h_trace[i].linebuf0 = KeyLetter
         /\ h_trace[i].pos0 = 0
         /\ ~h_trace[i].new_line0
         /\ h_trace[i].linebuf = <<ESCAPE_CHAR_CTRL_UTF8_START>>

\* C28: when a reset token has been processed the classifier is in NONE
\* and the line buffer is empty with the cursor at 0, as
\* terminal_display_record_start() leaves them
C28_ResetClearsEditor ==
    \A i \in 1 .. Len(h_trace) :
      h_trace[i].tok = ESCAPE_CHAR_CTRL_RESET =>
        /\ h_trace[i].after = TermStart.state
        /\ h_trace[i].linebuf = TermStart.linebuf
        /\ h_trace[i].pos = TermStart.pos

\* the tokens that edit nothing: Tab, the generic token, the navigation
\* tokens other than the two arrows, and the reset token
FrameTokens ==
    {ESCAPE_CHAR_CTRL_TAB, ESCAPE_CHAR_CTRL_OTHER, ESCAPE_CHAR_CTRL_RESET,
     ESCAPE_CHAR_CTRL_UP, ESCAPE_CHAR_CTRL_DOWN, ESCAPE_CHAR_CTRL_HOME,
     ESCAPE_CHAR_CTRL_END, ESCAPE_CHAR_CTRL_DELETE}

C30_ArrowsWithinBounds ==
    \A i \in 1 .. Len(h_trace) :
      /\ h_trace[i].tok \in {ESCAPE_CHAR_CTRL_LEFT, ESCAPE_CHAR_CTRL_RIGHT} =>
           /\ h_trace[i].linebuf = h_trace[i].linebuf0
           /\ h_trace[i].new_line = h_trace[i].new_line0
           /\ h_trace[i].logged = <<>>
      /\ h_trace[i].tok = ESCAPE_CHAR_CTRL_LEFT =>
           IF h_trace[i].pos0 > 0
             THEN /\ h_trace[i].pos = h_trace[i].pos0 - 1
                  /\ h_trace[i].echoed = <<CH_ESC, CH_LBRACKET, CH_D>>
             ELSE /\ h_trace[i].pos = h_trace[i].pos0
                  /\ h_trace[i].echoed = <<>>
      /\ h_trace[i].tok = ESCAPE_CHAR_CTRL_RIGHT =>
           IF h_trace[i].pos0 < Len(h_trace[i].linebuf0)
             THEN /\ h_trace[i].pos = h_trace[i].pos0 + 1
                  /\ h_trace[i].echoed = <<CH_ESC, CH_LBRACKET, CH_C>>
             ELSE /\ h_trace[i].pos = h_trace[i].pos0
                  /\ h_trace[i].echoed = <<>>

\* C30 case: after a letter the cursor went left and then right again, and
\* the letter stayed
C30_Witness ==
    \E i \in 1 .. Len(h_trace) - 1 :
      /\ h_trace[i].tok = ESCAPE_CHAR_CTRL_LEFT
      /\ h_trace[i].pos0 = 1
      /\ h_trace[i].pos = 0
      /\ h_trace[i + 1].tok = ESCAPE_CHAR_CTRL_RIGHT
      /\ h_trace[i + 1].pos = 1
      /\ h_trace[i + 1].linebuf = KeyLetter

\* C25: a carriage return takes the cursor to 0 and leaves the line buffer,
\* the new-line flag, the line's time stamp and the log as they were; and
\* when m printable bytes follow it, m not above the length of the buffer,
\* and then a line feed, the record logged is the m new bytes followed by
\* the old content from position m + 1 on
C25_CarriageReturnKeeps ==
    \A i \in 1 .. Len(h_trace) :
      h_trace[i].tok = ESCAPE_CHAR_CTRL_M_CR =>
        /\ h_trace[i].pos = 0
        /\ h_trace[i].linebuf = h_trace[i].linebuf0
        /\ h_trace[i].new_line = h_trace[i].new_line0
        /\ h_trace[i].time = h_trace[i].time0
        /\ h_trace[i].logged = <<>>
        /\ \A m \in 0 .. Len(h_trace[i].linebuf) :
             (/\ i + m + 1 <= Len(h_trace)
              /\ \A k \in 1 .. m : IsPrintable(h_trace[i + k].tok)
              /\ h_trace[i + m + 1].tok = ESCAPE_CHAR_CTRL_J_LF) =>
               h_trace[i + m + 1].logged =
                 <<TimeStr(h_trace[i + m + 1].time0) \o Prompt
                     \o [k \in 1 .. m |-> h_trace[i + k].tok]
                     \o SubSeq(h_trace[i].linebuf, m + 1,
                               Len(h_trace[i].linebuf))
                     \o <<CH_LF>>>>

\* C25 case: a two-letter word, a carriage return, one letter and a line
\* feed: the record holds the letter and the second letter of the word,
\* under the time stamp of the word
C25_Witness ==
    /\ h_fed = KeyWord \o <<ESCAPE_CHAR_CTRL_M_CR>> \o KeyLetter
                 \o <<ESCAPE_CHAR_CTRL_J_LF>>
    /\ h_log = <<TimeStr(1) \o Prompt \o KeyLetter \o Tail(KeyWord)
                   \o <<CH_LF>>>>
    /\ h_tsCount = 1

\* the trace entries, in order, of the line-feed tokens processed so far
LineFeeds ==
    SelectSeq(h_trace, LAMBDA e : e.tok = ESCAPE_CHAR_CTRL_J_LF)

\* C11: every line-feed token appended exactly one record, made of the
\* current-line time stamp, ">>>  ", the whole line buffer as it was
\* (wherever the cursor stood) and a newline, and left the cursor at 0, the
\* buffer empty and the new-line flag set; no other token wrote to the log;
\* the log is, in order, the records of the line-feed tokens, so there are
\* as many records as line-feed tokens
C11_LineFlush ==
    /\ \A i \in 1 .. Len(h_trace) :
         IF h_trace[i].tok = ESCAPE_CHAR_CTRL_J_LF
           THEN /\ h_trace[i].logged =
                     <<TimeStr(h_trace[i].time0) \o Prompt
                         \o h_trace[i].linebuf0 \o <<CH_LF>>>>
                /\ h_trace[i].pos = 0
                /\ h_trace[i].linebuf = <<>>
                /\ h_trace[i].new_line
           ELSE h_trace[i].logged = <<>>
    /\ Len(h_log) = Len(LineFeeds)
    /\ \A k \in 1 .. Len(h_log) : <<h_log[k]>> = LineFeeds[k].logged

\* C11 case: a line feed arrived with text in the buffer and the cursor
\* brought back to 0, and the record holds the whole text
C11_Witness ==
    \E i \in 1 .. Len(h_trace) :
      /\ h_trace[i].tok = ESCAPE_CHAR_CTRL_J_LF
      /\ h_trace[i].linebuf0 = KeyLetter
      /\ h_trace[i].pos0 = 0
      /\ h_log = <<TimeStr(h_trace[i].time0) \o Prompt \o KeyLetter
                     \o <<CH_LF>>>>

\* C12: a step that processes a batch calls the quit-signal callback once,
\* after the last byte of the batch, when a byte of the batch yielded the
\* interrupt token 0x03, however many did; otherwise it does not call it
C12_QuitOncePerBatch ==
    [][h_fed' # h_fed =>
         h_quitCalls' =
           IF \E i \in Len(h_trace) + 1 .. Len(h_trace') :
                h_trace'[i].tok = ESCAPE_CHAR_CTRL_C_SIGINT
             THEN Append(h_quitCalls, Len(h_fed'))
             ELSE h_quitCalls]_vars

\* C27: a step that processes a batch holding the byte 0x03, in whatever
\* state the classifier is when the byte arrives, ends with the quit
\* request of that batch (the callback is called after its last byte), and
\* the bytes after the 0x03 are classified and applied as well: the whole
\* batch has joined the stream and the classifier, the line buffer, the
\* log and the echo are those of the whole stream
C27_InterruptAnywhere ==
    [][(/\ h_fed' # h_fed
        /\ \E j \in Len(h_fed) + 1 .. Len(h_fed') :
             h_fed'[j] = ESCAPE_CHAR_CTRL_C_SIGINT) =>
         /\ h_quitCalls' = Append(h_quitCalls, Len(h_fed'))
         /\ h_fed' \o remoteOut' = h_fed \o remoteOut
         /\ C6_ChunkingInvariant']_vars

\* C12 case: one batch held two interrupt bytes around a letter, and the
\* callback was called once, after the third byte
C12_Witness ==
    /\ h_fed = <<ESCAPE_CHAR_CTRL_C_SIGINT>> \o KeyLetter
                 \o <<ESCAPE_CHAR_CTRL_C_SIGINT>>
    /\ h_quitCalls = <<Len(h_fed)>>

\* C14: the cursor lies within 0 .. length of the line buffer in every
\* state, and it did before and after every token processed so far, so the
\* index of every overwrite (cursor < length), insert (cursor = length) and
\* erase (cursor - 1 >= 0) was inside the buffer
C14_CursorInRange ==
    /\ s_linebuf_insert_pos \in 0 .. Len(s_linebuf)
    /\ \A i \in 1 .. Len(h_trace) :
         /\ h_trace[i].pos0 \in 0 .. Len(h_trace[i].linebuf0)
         /\ h_trace[i].pos \in 0 .. Len(h_trace[i].linebuf)

\* C14 case: with text in the buffer, the delete-line token emptied it and
\* took the cursor back to 0, and the classifier has reset on a control
\* byte inside a CSI sequence
C14_Witness ==
    /\ \E i \in 1 .. Len(h_trace) :
         /\ h_trace[i].tok = ESCAPE_CHAR_CTRL_U_DEL_LINE
         /\ h_trace[i].pos0 > 0
         /\ h_trace[i].linebuf = <<>>
         /\ h_trace[i].pos = 0
    /\ \E i \in 1 .. Len(h_trace) : h_trace[i].tok = ESCAPE_CHAR_CTRL_RESET

\* the nine states of the classifier
MatchStates ==
    {TERMINAL_ESCAPE_MATCH_NONE, TERMINAL_ESCAPE_MATCH_ESC,
     TERMINAL_ESCAPE_MATCH_ESC_OSC, TERMINAL_ESCAPE_MATCH_ESC_DCS,
     TERMINAL_ESCAPE_MATCH_ESC_PM, TERMINAL_ESCAPE_MATCH_ESC_APC,
     TERMINAL_ESCAPE_MATCH_ESC_SS3, TERMINAL_ESCAPE_MATCH_ESC_CSI,
     TERMINAL_ESCAPE_MATCH_ESC_STRING_WAIT_ST}

\* the navigation tokens
NavigationTokens ==
    {ESCAPE_CHAR_CTRL_HOME, ESCAPE_CHAR_CTRL_END, ESCAPE_CHAR_CTRL_LEFT,
     ESCAPE_CHAR_CTRL_RIGHT, ESCAPE_CHAR_CTRL_UP, ESCAPE_CHAR_CTRL_DOWN,
     ESCAPE_CHAR_CTRL_DELETE}

\* p is a defined result of one call on the byte c in the state `state`
\* with raw text str: a state of the nine, and one token that is the
\* literal byte (only outside a sequence), none (only while a sequence goes
\* on), a navigation token, the generic token or the reset token (each
\* only when the call ends a sequence); the call took the one byte c
DefinedStep(state, str, c, p) ==
    /\ p.state \in MatchStates
    /\ p.str = (IF state # TERMINAL_ESCAPE_MATCH_NONE THEN Append(str, c)
                ELSE IF c = CH_ESC THEN <<CH_ESC>> ELSE str)
    /\ IF state = TERMINAL_ESCAPE_MATCH_NONE /\ c # CH_ESC
         THEN p.tok = c /\ p.state = TERMINAL_ESCAPE_MATCH_NONE
         ELSE IF p.state # TERMINAL_ESCAPE_MATCH_NONE
         THEN p.tok = ESCAPE_CHAR_NUL
         ELSE p.tok \in NavigationTokens
                          \cup {ESCAPE_CHAR_CTRL_OTHER, ESCAPE_CHAR_CTRL_RESET}

\* C16: the classifier is in one of its nine states, and from the state it
\* is in every byte value 0x00-0xFF has a defined step
C16_ClassifierTotal ==
    /\ s_escape_char_match_state \in MatchStates
    /\ \A c \in Bytes :
         DefinedStep(s_escape_char_match_state, s_escape_char_parse_buf_str, c,
                     ehshell_escape_char_parse(s_escape_char_match_state,
                                               s_escape_char_parse_buf,
                                               s_escape_char_parse_buf_str, c))

\* C16 case: a byte that is no terminator arrived while the string
\* terminator was awaited, and the classifier reset
C16_Witness ==
    \E i \in 1 .. Len(h_trace) :
      /\ h_trace[i].before = TERMINAL_ESCAPE_MATCH_ESC_STRING_WAIT_ST
      /\ h_trace[i].byte = ESCAPE_CHAR_CTRL_NOSTD_START
      /\ h_trace[i].tok = ESCAPE_CHAR_CTRL_RESET

\* the four string states: OSC, DCS, PM, APC
StringStates ==
    {TERMINAL_ESCAPE_MATCH_ESC_OSC, TERMINAL_ESCAPE_MATCH_ESC_DCS,
     TERMINAL_ESCAPE_MATCH_ESC_PM, TERMINAL_ESCAPE_MATCH_ESC_APC}

\* the bytes of the sequence the entry e belongs to that follow its
\* two-byte introducer, the byte of e included
SeqBody(e) == SubSeq(e.raw, 3, Len(e.raw))

\* the byte of the entry e is a cause of a hard reset in the state it met:
\* in CSI a byte that is neither parameter, intermediate nor final, or a
\* byte the parse buffer has no room for; in SS3 a byte that is no final; in
\* STRING_WAIT_ST a byte other than '\'; in a string state a payload byte
\* that brings the count to the size of the buffer less one
HardResetCause(e) ==
    \/ /\ e.before = TERMINAL_ESCAPE_MATCH_ESC_CSI
       /\ \/ Len(SeqBody(e)) > TERMINAL_ESCAPE_CHAR_PARSE_BUF_SIZE - 1
          \/ /\ ~is_csi_final(e.byte)
             /\ ~is_middle_byte(e.byte)
             /\ ~is_param_byte(e.byte)
    \/ /\ e.before = TERMINAL_ESCAPE_MATCH_ESC_SS3
       /\ ~is_csi_final(e.byte)
    \/ /\ e.before = TERMINAL_ESCAPE_MATCH_ESC_STRING_WAIT_ST
       /\ e.byte # CH_BACKSLASH
    \/ /\ e.before \in StringStates
       /\ e.byte \notin {CH_BEL, CH_ESC}
       /\ Len(SeqBody(e)) >= TERMINAL_ESCAPE_CHAR_PARSE_BUF_SIZE - 1

\* C21: a byte yields the reset token exactly when it is a cause of a hard
\* reset; the call that returns the reset token leaves the classifier in
\* NONE; the byte yields that one token only, and the byte after it is
\* classified as the first byte of a stream is: a literal unless it is ESC
C21_HardReset ==
    /\ \A i \in 1 .. Len(h_trace) :
         /\ h_trace[i].tok = ESCAPE_CHAR_CTRL_RESET <=> HardResetCause(h_trace[i])
         /\ h_trace[i].tok = ESCAPE_CHAR_CTRL_RESET =>
              /\ h_trace[i].after = TERMINAL_ESCAPE_MATCH_NONE
              /\ h_trace[i].byte = h_fed[h_trace[i].at]
              /\ i < Len(h_trace) =>
                   /\ h_trace[i + 1].at > h_trace[i].at
                   /\ h_trace[i + 1].at = h_trace[i].at + 1 =>
                        /\ h_trace[i + 1].before = TERMINAL_ESCAPE_MATCH_NONE
                        /\ h_trace[i + 1].tok = h_trace[i + 1].byte
                   /\ h_trace[i + 1].at > h_trace[i].at + 1 =>
                        /\ h_fed[h_trace[i].at + 1] = CH_ESC
                        /\ h_trace[i + 1].raw[1] = CH_ESC
                        /\ Len(h_trace[i + 1].raw) =
                             h_trace[i + 1].at - h_trace[i].at
    /\ (h_trace # <<>> /\ h_trace[Len(h_trace)].at = Len(h_fed)) =>
         s_escape_char_match_state = TERMINAL_ESCAPE_MATCH_NONE

\* C21 case: the byte that no longer fits the parse buffer of a CSI
\* sequence, itself a final byte, yielded the reset token, and the letter
\* after it was taken as a literal
C21_Witness ==
    \E i \in 1 .. Len(h_trace) - 1 :
      /\ h_trace[i].tok = ESCAPE_CHAR_CTRL_RESET
      /\ h_trace[i].before = TERMINAL_ESCAPE_MATCH_ESC_CSI
      /\ is_csi_final(h_trace[i].byte)
      /\ h_trace[i + 1].at = h_trace[i].at + 1
      /\ <<h_trace[i + 1].tok>> = KeyLetter
      /\ s_linebuf = KeyLetter

\* the bytes that open a longer sequence after ESC (lines 135-152)
EscIntroducers ==
    {CH_LBRACKET, CH_RBRACKET, CH_P, CH_CARET, CH_UNDERSCORE, CH_O}

\* C22: a byte met in state ESC that is none of '[', ']', 'P', '^', '_',
\* 'O' takes the classifier back to NONE, and the two-byte sequence is
\* discarded: nothing is echoed, nothing is logged, and the line buffer and
\* the cursor stay as they were
C22_UnrecognizedEscDiscarded ==
    \A i \in 1 .. Len(h_trace) :
      h_trace[i].before = TERMINAL_ESCAPE_MATCH_ESC =>
        /\ h_trace[i].byte \notin EscIntroducers
        /\ h_trace[i].after = TERMINAL_ESCAPE_MATCH_NONE
        /\ h_trace[i].linebuf = h_trace[i].linebuf0
        /\ h_trace[i].pos = h_trace[i].pos0
        /\ h_trace[i].logged = <<>>
        /\ h_trace[i].echoed = <<>>

\* the string state the byte c after ESC opens (lines 138-149)
StringStateOf(c) ==
    CASE c = CH_RBRACKET -> TERMINAL_ESCAPE_MATCH_ESC_OSC
      [] c = CH_P -> TERMINAL_ESCAPE_MATCH_ESC_DCS
      [] c = CH_CARET -> TERMINAL_ESCAPE_MATCH_ESC_PM
      [] c = CH_UNDERSCORE -> TERMINAL_ESCAPE_MATCH_ESC_APC
      [] OTHER -> TERMINAL_ESCAPE_MATCH_NONE

\* the string-family and SS3 sequences with a payload of up to cap bytes:
\* in a string state BEL yields the generic token and ESC leads to
\* STRING_WAIT_ST; any other byte yields a token, the reset token, only
\* when it takes the payload beyond cap bytes; in STRING_WAIT_ST '\' yields
\* the generic token and any other byte the reset token; in SS3 a byte in
\* 0x40..0x7E yields the generic token and any other the reset token; each
\* token leaves the classifier in NONE; and while the classifier is in a
\* string state it is the state of the introducer, the raw text is the
\* end of the stream, no byte of the payload is BEL or ESC, no byte of the
\* sequence has yielded a token, and the payload has at most cap bytes
StringSequences(cap) ==
    /\ \A i \in 1 .. Len(h_trace) :
         /\ h_trace[i].before \in StringStates =>
              /\ h_trace[i].after = TERMINAL_ESCAPE_MATCH_NONE
              /\ h_trace[i].before = StringStateOf(h_trace[i].raw[2])
              /\ IF h_trace[i].byte = CH_BEL
                   THEN h_trace[i].tok = ESCAPE_CHAR_CTRL_OTHER
                   ELSE /\ h_trace[i].tok = ESCAPE_CHAR_CTRL_RESET
                        /\ h_trace[i].byte # CH_ESC
                        /\ Len(SeqBody(h_trace[i])) = cap + 1
         /\ h_trace[i].before = TERMINAL_ESCAPE_MATCH_ESC_STRING_WAIT_ST =>
              /\ h_trace[i].after = TERMINAL_ESCAPE_MATCH_NONE
              /\ h_trace[i].tok = IF h_trace[i].byte = CH_BACKSLASH
                                    THEN ESCAPE_CHAR_CTRL_OTHER
                                    ELSE ESCAPE_CHAR_CTRL_RESET
         /\ h_trace[i].before = TERMINAL_ESCAPE_MATCH_ESC_SS3 =>
              /\ h_trace[i].after = TERMINAL_ESCAPE_MATCH_NONE
              /\ h_trace[i].tok = IF is_csi_final(h_trace[i].byte)
                                    THEN ESCAPE_CHAR_CTRL_OTHER
                                    ELSE ESCAPE_CHAR_CTRL_RESET
    /\ s_escape_char_match_state
         \in StringStates \cup {TERMINAL_ESCAPE_MATCH_ESC_STRING_WAIT_ST} =>
         \E n \in {Len(s_escape_char_parse_buf_str)} :
           \E wait \in {IF s_escape_char_match_state \in StringStates
                           THEN 0 ELSE 1} :
             /\ n >= 2 + wait
             /\ n <= Len(h_fed)
             /\ s_escape_char_parse_buf_str
                  = SubSeq(h_fed, Len(h_fed) - n + 1, Len(h_fed))
             /\ s_escape_char_parse_buf_str[1] = CH_ESC
             /\ StringStateOf(s_escape_char_parse_buf_str[2]) \in StringStates
             /\ wait = 0 =>
                  s_escape_char_match_state
                    = StringStateOf(s_escape_char_parse_buf_str[2])
             /\ wait = 1 => s_escape_char_parse_buf_str[n] = CH_ESC
             /\ \A j \in 3 .. n - wait :
                  s_escape_char_parse_buf_str[j] \notin {CH_BEL, CH_ESC}
             /\ n - wait - 2 <= cap
             /\ \A i \in 1 .. Len(h_trace) : h_trace[i].at <= Len(h_fed) - n

\* C23 as stated: the payload may grow to the 64 bytes of the accumulation
\* buffer, and the byte that exceeds them causes the hard reset
C23_StringCapIsBufferSize ==
    StringSequences(TERMINAL_ESCAPE_CHAR_PARSE_BUF_SIZE)

\* C23: the payload may grow to 62 bytes, two less than the accumulation
\* buffer, and the 63rd payload byte causes the hard reset
C23_StringSequences ==
    StringSequences(TERMINAL_ESCAPE_CHAR_PARSE_BUF_SIZE - 2)

\* C23 case: the 63rd payload byte of an OSC sequence, a byte that is no
\* terminator, yielded the reset token
C23_Witness ==
    \E i \in 1 .. Len(h_trace) :
      /\ h_trace[i].before = TERMINAL_ESCAPE_MATCH_ESC_OSC
      /\ h_trace[i].tok = ESCAPE_CHAR_CTRL_RESET
      /\ h_trace[i].byte = ESCAPE_CHAR_CTRL_C_SIGINT
      /\ Len(SeqBody(h_trace[i])) = TERMINAL_ESCAPE_CHAR_PARSE_BUF_SIZE - 1

\* the indices of the parse buffer
ParseBufIndices == 0 .. TERMINAL_ESCAPE_CHAR_PARSE_BUF_SIZE - 1

\* C35: the parse buffer has its 64 slots and the count in slot 0 is within
\* 0..63 in every state; a byte processed changes a slot other than slot 0
\* only in the CSI state, and then the slot count + 1, which is within
\* 1..63, gets the byte; in the CSI state a count of 63 stores nothing and
\* resets; a count that grows grows by one; and ESC met in NONE clears the
\* count
C35_ParseBufBounded ==
    /\ [](/\ DOMAIN s_escape_char_parse_buf = ParseBufIndices
          /\ s_escape_char_parse_buf[0] \in ParseBufIndices)
    /\ [][h_fed' # h_fed =>
            \E c \in {h_fed'[Len(h_fed')]},
               count \in {s_escape_char_parse_buf[0]} :
              /\ Len(h_fed') = Len(h_fed) + 1
              /\ (s_escape_char_match_state = TERMINAL_ESCAPE_MATCH_NONE
                    /\ c = CH_ESC) =>
                   /\ s_escape_char_parse_buf'[0] = 0
                   /\ s_escape_char_match_state' = TERMINAL_ESCAPE_MATCH_ESC
              /\ \A k \in ParseBufIndices \ {0} :
                   s_escape_char_parse_buf'[k] # s_escape_char_parse_buf[k] =>
                     /\ s_escape_char_match_state
                          = TERMINAL_ESCAPE_MATCH_ESC_CSI
                     /\ k = count + 1
                     /\ s_escape_char_parse_buf'[k] = c
              /\ s_escape_char_parse_buf'[0] # count =>
                   \/ s_escape_char_parse_buf'[0] = 0
                   \/ /\ s_escape_char_parse_buf'[0] = count + 1
                      /\ count + 1 \in ParseBufIndices \ {0}
              /\ s_escape_char_match_state = TERMINAL_ESCAPE_MATCH_ESC_CSI =>
                   IF count < TERMINAL_ESCAPE_CHAR_PARSE_BUF_SIZE - 1
                     THEN /\ s_escape_char_parse_buf'[count + 1] = c
                          /\ s_escape_char_parse_buf'[0] = count + 1
                     ELSE /\ s_escape_char_parse_buf'
                               = s_escape_char_parse_buf
                          /\ s_escape_char_match_state'
                               = TERMINAL_ESCAPE_MATCH_NONE
                          /\ h_trace'[Len(h_trace')].tok
                               = ESCAPE_CHAR_CTRL_RESET]_vars

\* C35 case: a CSI sequence has filled the last slot of the buffer with a
\* parameter byte, and the byte after it, a parameter byte too, has
\* yielded the reset token
C35_Witness ==
    /\ s_escape_char_parse_buf[0] = TERMINAL_ESCAPE_CHAR_PARSE_BUF_SIZE - 1
    /\ s_escape_char_parse_buf[TERMINAL_ESCAPE_CHAR_PARSE_BUF_SIZE - 1] = CH_1
    /\ s_escape_char_match_state = TERMINAL_ESCAPE_MATCH_NONE
    /\ h_trace # <<>>
    /\ \E e \in {h_trace[Len(h_trace)]} :
         /\ e.before = TERMINAL_ESCAPE_MATCH_ESC_CSI
         /\ e.tok = ESCAPE_CHAR_CTRL_RESET
         /\ e.byte = CH_SEMICOLON
         /\ e.at = Len(h_fed)

(***************************************************************************)
(* Properties of the record sink thread and the shutdown (SpecSink)        *)
(***************************************************************************)
\* C13: once jlink_rtt_stop() is past its first statement the stop flag is
\* set; RTT STOP is issued only when rtt_thread and timeout_thread have
\* ended, so that no remote read or write and no callback follows it; and
\* the log file is closed only when the sink thread has ended
C13_ShutdownOrder ==
    /\ mpc \in {"join", "stopped"} => s_req_stop
    /\ IssuedLast("STOP") =>
         /\ mpc = "stopped"
         /\ wpc = "done"
         /\ tpc = "done"
    /\ ~log_open => kpc = "done"

\* C13 case: data was received and processed, then the sink and the relay
\* were stopped in main's order
C13_Witness ==
    /\ h_fed # <<>>
    /\ ~log_open
    /\ IssuedLast("STOP")
    /\ mpc = "stopped"

\* C18: the bytes the sink has processed, then those of the batch it holds,
\* then those of the queued chunks are, in order, the bytes of all chunks
\* passed to terminal_display_record_write; and when the sink thread has
\* seen the stop request it has processed every byte written before that
\* moment and holds no batch
C18_SinkFifoAndDrain ==
    /\ IsPrefix(h_fed, h_written)
    /\ h_fed \o tdr_data \o Flatten(tdr_rtt_rx_queue) = h_written
    /\ kpc = "done" => h_fed = h_atStop /\ tdr_data = <<>>

\* C18 case: every chunk the bound allows was written at full length, and
\* the sink thread had processed all their bytes when it ended
C18_Witness ==
    /\ kpc = "done"
    /\ nRecv = MaxReceives
    /\ h_fed = h_written
    /\ Len(h_fed) = MaxReceives * MaxChunkLen
    /\ xpc = "join"

\* C36: when the session has ended (the sink stopped, then the relay, as
\* main does) every byte the relay worker read from the remote and handed
\* to terminal_display_record_write has been processed by the sink
C36_NoReceivedByteLost ==
    (xpc = "stopped" /\ mpc = "stopped" /\ wpc = "done") =>
      /\ h_fed = h_written
      /\ tdr_rtt_rx_queue = <<>>

\* C17: once terminal_display_record_stop() has set the stop flag and
\* notified the condition variable, the sink thread ends in the end, so
\* that the join returns
C17_SinkStopIsLive ==
    (xpc = "join") ~> (kpc = "done")

====
